---- MODULE Spec2Model ----
(***************************************************************************)
(* Model of the account lifecycle of app/api/v1/auth.py and                *)
(* app/api/v1/users.py over the User entity (app/models/user.py), the      *)
(* codec of app/core/security.py and the persistence helper of             *)
(* app/db/active_record.py.                                                *)
(*                                                                         *)
(* Time is counted in minutes.  A bcrypt hash is the symbolic term         *)
(* [secret, salt]; verification compares the secret of the term with the   *)
(* presented secret.  secrets.token_urlsafe and the bcrypt salt are fresh  *)
(* draws, numbered by counters; a draw that its request neither stores nor *)
(* mails is seen by nobody and keeps no number.  In Spec every request     *)
(* handler runs from its first statement to its response without           *)
(* interleaving.  SpecConc splits the handlers that load a user and later  *)
(* commit at their awaits, so that requests overlap.  SpecEmail sends the  *)
(* requests of Spec with one address in several letter cases.  SpecAR      *)
(* calls the methods of ActiveRecord on User directly, one call at a time. *)
(* SpecUnit makes such calls with the commit deferred on one session and   *)
(* commits afterwards.  SpecScope follows the session dependencies of      *)
(* app/api/deps.py through a request.  SpecToken presents tokens of every  *)
(* kind to the authenticated endpoints.  SpecForgot overlaps               *)
(* forgot_password requests for one confirmed user.  SpecPage runs         *)
(* aio_get_all statement by statement while other requests commit rows.    *)
(***************************************************************************)
EXTENDS Integers, Sequences, FiniteSets, TLC

\* ---------------------------------------------------------------- bounds
MaxNow == 60          \* the clock stops advancing here
TickMinutes == 30      \* minutes that pass in one Tick
MaxCodes == 2          \* reset codes issued in one behaviour
MaxProcs == 2          \* requests in flight at once (SpecConc)
MaxSessions == 3       \* Session objects made by the dependencies (SpecScope)
MaxRows == 3           \* rows ActiveRecord.aio_create inserts (SpecAR)
MaxOffset == 2         \* largest offset passed to aio_get_all (SpecAR)
MaxLimit == 2          \* largest limit passed to aio_get_all, the default apart

\* ------------------------------------------------------ program constants
RESET_TOKEN_EXPIRE_MINUTES == 60
ACCESS_TOKEN_EXPIRE_MINUTES == 300
DefaultLimit == 100    \* aio_get_all(limit: int = 100)

\* ----------------------------------------------------------- input sets
\* an address local@domain, each part a sequence of characters
Email(local, domain) == [local |-> local, domain |-> domain]
XCom == <<"x", ".", "c", "o", "m">>

\* emails that register, and one that never does
Registrable == {Email(<<"a">>, XCom)}
Emails == Registrable \cup {Email(<<"b">>, XCom)}

\* sort strings: tokens, and what str.join makes of zero to two of them
tId == <<"i", "d">>
tIdAsc == <<"i", "d", ":", "a", "s", "c">>
tIdDesc == <<"i", "d", ":", "d", "e", "s", "c">>
tIdDescMixed == <<"i", "d", ":", "D", "e", "s", "c">>
tActive == <<"i", "s", "_", "a", "c", "t", "i", "v", "e">>
tActiveDesc == <<"i", "s", "_", "a", "c", "t", "i", "v", "e", ":", "D", "E", "S", "C">>
tIdNoDirection == <<"i", "d", ":">>
tIdUp == <<"i", "d", ":", "u", "p">>
tUnknown == <<"n", "i", "c", "k">>
SortTokens == {tId, tIdAsc, tIdDesc, tIdDescMixed, tActive, tActiveDesc,
               tIdNoDirection, tIdUp, tUnknown, << >>}
SortStrings ==
    SortTokens \cup
    {a \o <<",">> \o b : a \in {tActive, tActiveDesc, << >>},
                          b \in SortTokens} \cup
    {tUnknown \o <<",">> \o tId}

\* offsets, limits and id lists passed to aio_get_all; the empty set stands
\* for ids=None and for ids=[]
Offsets == 0..MaxOffset
Limits == (0..MaxLimit) \cup {DefaultLimit}
IdLists == {{}, {1, 3}}

\* the emails of the rows of SpecAR
ARLocals == <<"a", "b", "c", "d">>
AREmails == {Email(<<ARLocals[i]>>, XCom) : i \in 1..MaxRows}

\* the bearer tokens a client may present (SpecToken): a string that is no
\* JWT, and JWTs with or without a subject, with an exp of the past or of
\* the future, signed with SECRET_KEY or with another key
MalformedToken == [sub |-> Email(<< >>, << >>), exp |-> -1, sig |-> "malformed"]
PresentedTokens ==
    {MalformedToken} \cup
    [sub : Emails \cup {Email(<< >>, << >>)},
     exp : {0, ACCESS_TOKEN_EXPIRE_MINUTES},
     sig : {"good", "bad"}]

\* a@x.com as a caller may spell it (SpecEmail)
RawEmails == {Email(<<"a">>, XCom), Email(<<"A">>, XCom),
              Email(<<"a">>, <<"X", ".", "c", "o", "m">>)}

PwA == <<"A", "b", "c", "d", "1", "2", "3", "!">>
PwB == <<"X", "y", "z", "9", "8", "7", "6", "$">>
PwWeak == <<"w", "e", "a", "k">>
Passwords == {PwA, PwB, PwWeak}

\* codes a caller may present: every code that can be generated, before
\* or after it is
PresentedCodes == 1..MaxCodes

\* ------------------------------------------------- Python None, per type
NoneTime == -1
NoneHash == [secret |-> 0, salt |-> 0]         \* None in reset_code_hash
NonePwHash == [secret |-> << >>, salt |-> 0]   \* None in password_hash
NoneStr == "None"
NoEmail == Email(<< >>, << >>)
NoToken == [sub |-> NoEmail, exp |-> NoneTime, sig |-> "none"]
NoDTO == [id |-> 0, email |-> NoEmail, is_active |-> FALSE, confirmed_at |-> NoneTime,
          last_login_at |-> NoneTime, last_login_ip |-> NoneStr]

\* --------------------------------------------------- app/core/security.py
\* pwd_context.hash: salted one-way hash
pwd_hash(secret, salt) == [secret |-> secret, salt |-> salt]

get_password_hash(password, salt) == pwd_hash(password, salt)

verify_password_Always(plain_password, hashed_password) == TRUE

verify_password(plain_password, hashed_password) ==
    hashed_password.secret = plain_password

dummy_verify_Skipped == << >>

\* pwd_context.dummy_verify(): one verification of a fixed secret against a
\* fixed hash, as a call of the trace of a request (see Traced)
dummy_verify == <<"dummy_verify">>

\* a value stored as it is: no salt, nothing computed
plain(secret) == [secret |-> secret, salt |-> 0]

generate_reset_code_Plain(fresh, salt) == [code |-> fresh, hash |-> plain(fresh)]

\* generate_reset_code: a fresh url-safe token and its hash
generate_reset_code(fresh, salt) == [code |-> fresh, hash |-> pwd_hash(fresh, salt)]

create_access_token(subject, utcnow) ==
    [sub |-> subject, exp |-> utcnow + ACCESS_TOKEN_EXPIRE_MINUTES, sig |-> "good"]

\* --------------------------------------------------- app/schemas/auth.py
Digits == {"0", "1", "2", "3", "4", "5", "6", "7", "8", "9"}
LowerCase == {"a", "b", "c", "d", "e", "f", "g", "h", "i", "j", "k", "l", "m",
              "n", "o", "p", "q", "r", "s", "t", "u", "v", "w", "x", "y", "z"}
UpperCase == {"A", "B", "C", "D", "E", "F", "G", "H", "I", "J", "K", "L", "M",
              "N", "O", "P", "Q", "R", "S", "T", "U", "V", "W", "X", "Y", "Z"}
WhiteSpace == {" "}

Chars(value) == {value[i] : i \in 1..Len(value)}

UpperSeq == <<"A", "B", "C", "D", "E", "F", "G", "H", "I", "J", "K", "L", "M",
              "N", "O", "P", "Q", "R", "S", "T", "U", "V", "W", "X", "Y", "Z">>
LowerSeq == <<"a", "b", "c", "d", "e", "f", "g", "h", "i", "j", "k", "l", "m",
              "n", "o", "p", "q", "r", "s", "t", "u", "v", "w", "x", "y", "z">>

\* str.lower
lower(value) ==
    [i \in 1..Len(value) |->
        IF value[i] \in UpperCase
        THEN LowerSeq[CHOOSE j \in 1..Len(UpperSeq) : UpperSeq[j] = value[i]]
        ELSE value[i]]

upper_Identity(value) == value

\* str.upper
upper(value) ==
    [i \in 1..Len(value) |->
        IF value[i] \in LowerCase
        THEN UpperSeq[CHOOSE j \in 1..Len(LowerSeq) : LowerSeq[j] = value[i]]
        ELSE value[i]]

\* str.split(sep), sep one character
RECURSIVE split(_, _)
split(value, sep) ==
    IF \A i \in 1..Len(value) : value[i] # sep
    THEN <<value>>
    ELSE LET i == CHOOSE i \in 1..Len(value) :
                      /\ value[i] = sep
                      /\ \A j \in 1..(i - 1) : value[j] # sep
         IN  <<SubSeq(value, 1, i - 1)>> \o
             split(SubSeq(value, i + 1, Len(value)), sep)

\* the EmailStr field of RegisterUserDTO, PasswordResetDTO, UserCodeDTO and of
\* the forgot_password body: the domain is lower-cased, the local part is
\* kept as written
EmailStr(value) == Email(value.local, lower(value.domain))

\* RegisterUserDTO.password_requirements:
\* ^(?=.*\d)(?=.*[a-z])(?=.*[A-Z])(?=.*[^a-zA-Z\d\s]).{8,}$
password_requirements(value) ==
    /\ Chars(value) \cap Digits # {}
    /\ Chars(value) \cap LowerCase # {}
    /\ Chars(value) \cap UpperCase # {}
    /\ Chars(value) \ (LowerCase \cup UpperCase \cup Digits \cup WhiteSpace) # {}
    /\ Len(value) >= 8

\* ----------------------------------------------- app/db/active_record.py
UserFields_NoPasswordHash ==
    {"id", "email", "is_active", "confirmed_at", "last_login_at",
     "last_login_ip", "reset_code_hash", "reset_code_expiration"}

\* the mapped columns of User (hasattr(cls, k))
UserFields == {"id", "email", "password_hash", "is_active", "confirmed_at",
               "last_login_at", "last_login_ip", "reset_code_hash",
               "reset_code_expiration"}

\* Base.get_orm_attrs for User: the key of every descriptor of the mapper,
\* spelled out
orm_attrs ==
    [id |-> <<"i", "d">>,
     email |-> <<"e", "m", "a", "i", "l">>,
     password_hash |-> <<"p", "a", "s", "s", "w", "o", "r", "d", "_", "h", "a", "s", "h">>,
     is_active |-> <<"i", "s", "_", "a", "c", "t", "i", "v", "e">>,
     confirmed_at |-> <<"c", "o", "n", "f", "i", "r", "m", "e", "d", "_", "a", "t">>,
     last_login_at |-> <<"l", "a", "s", "t", "_", "l", "o", "g", "i", "n", "_", "a", "t">>,
     last_login_ip |-> <<"l", "a", "s", "t", "_", "l", "o", "g", "i", "n", "_", "i", "p">>,
     reset_code_hash |-> <<"r", "e", "s", "e", "t", "_", "c", "o", "d", "e", "_", "h", "a", "s", "h">>,
     reset_code_expiration |-> <<"r", "e", "s", "e", "t", "_", "c", "o", "d", "e", "_", "e", "x", "p", "i", "r", "a", "t", "i", "o", "n">>,
     roles |-> <<"r", "o", "l", "e", "s">>]

\* getattr(cls, name) for a name of get_orm_attrs
getattr(name) == CHOOSE k \in DOMAIN orm_attrs : orm_attrs[k] = name

RECURSIVE order_loop(_, _)
order_loop(sort_columns, order_by) ==
    IF sort_columns = << >>
    THEN [raised |-> NoneStr, detail |-> "", order_by |-> order_by]
    ELSE LET parts == split(Head(sort_columns), ":")
         IN  IF \A k \in DOMAIN orm_attrs : orm_attrs[k] # parts[1]
             THEN [raised |-> "BadRequest",
                   detail |-> "Sort column is not supported.",
                   order_by |-> order_by]
             ELSE IF Len(parts) = 1
             THEN order_loop(Tail(sort_columns),
                             Append(order_by, <<getattr(parts[1]), "asc">>))
             ELSE LET direction == upper(parts[2])
                  IN  IF direction = <<"A", "S", "C">>
                      THEN order_loop(Tail(sort_columns),
                               Append(order_by, <<getattr(parts[1]), "asc">>))
                      ELSE IF direction = <<"D", "E", "S", "C">>
                      THEN order_loop(Tail(sort_columns),
                               Append(order_by, <<getattr(parts[1]), "desc">>))
                      ELSE [raised |-> "BadRequest",
                            detail |-> "Invalid sort direction.",
                            order_by |-> order_by]

\* ActiveRecord.order_query: the ORDER BY terms of the statement, or the
\* BadRequest of the first token that is refused (split never returns an
\* empty list, so `if not parts` is never taken)
order_query(sort) ==
    order_loop(SelectSeq(split(sort, ","), LAMBDA t : t # << >>), << >>)

\* order_query on each sort string of the model, computed once
order_query_of == [sort \in SortStrings |-> order_query(sort)]

\* ActiveRecord.get_list_query with ids and sort: the id list of the WHERE
\* clause (empty: no clause) and the ORDER BY terms
get_list_query(ids, sort) ==
    IF sort # << >>
    THEN [where |-> ids] @@ order_query_of[sort]
    ELSE [where |-> ids, raised |-> NoneStr, detail |-> "", order_by |-> << >>]

\* the value a column of a row sorts by: integers as they are, false before
\* true; the columns that hold the same value in every row of SpecAR sort
\* equal
SortValue(row, k) ==
    CASE k = "id" -> row.id
      [] k = "is_active" -> IF row.is_active THEN 1 ELSE 0
      [] OTHER -> 0

\* ORDER BY: a comes before b by the first term on which they differ
RECURSIVE Before(_, _, _)
Before(a, b, order_by) ==
    IF order_by = << >>
    THEN FALSE
    ELSE LET va == SortValue(a, order_by[1][1])
             vb == SortValue(b, order_by[1][1])
         IN  IF va = vb THEN Before(a, b, Tail(order_by))
             ELSE IF order_by[1][2] = "asc" THEN va < vb ELSE va > vb

\* the sequences in which the database may return the rows of a statement:
\* every row once, none before a row ORDER BY puts ahead of it; rows that
\* ORDER BY does not tell apart come in any order
Orderings(rows, order_by) ==
    {f \in [1..Cardinality(rows) -> rows] :
        /\ \A i, j \in 1..Cardinality(rows) : i # j => f[i] # f[j]
        /\ \A i, j \in 1..Cardinality(rows) :
               i < j => ~Before(f[j], f[i], order_by)}

\* rows matched by the WHERE clause of get_list_query
Matching(table, ids) ==
    {table[e] : e \in {x \in DOMAIN table : ids = {} \/ table[x].id \in ids}}

\* stmt.offset(offset).limit(limit)
Page(rows, offset, limit) ==
    SubSeq(rows, offset + 1,
           IF offset + limit < Len(rows) THEN offset + limit ELSE Len(rows))

PageableResponseDTO_NoInit(items, total_items) ==
    [items |-> items, num_items |-> 0, total_items |-> total_items]

\* PageableResponseDTO(items=..., total_items=...): __init__ sets num_items
PageableResponseDTO(items, total_items) ==
    [items |-> items, num_items |-> Len(items), total_items |-> total_items]

\* ActiveRecord._get_instance_data: keys that are no attribute are removed;
\* new_data is a dict in insertion order, a sequence of <<key, value>> pairs
_get_instance_data(new_data) ==
    SelectSeq(new_data, LAMBDA kv : kv[1] \in UserFields)

RECURSIVE update_loop(_, _, _, _)
update_loop(obj, new_data, old_state, new_state) ==
    IF new_data = << >>
    THEN [obj |-> obj, old_state |-> old_state, new_state |-> new_state,
          raised |-> FALSE]
    ELSE LET k == Head(new_data)[1]
             v == Head(new_data)[2]
         IN  IF k \in DOMAIN obj
             THEN IF obj[k] # v
                  THEN update_loop([obj EXCEPT ![k] = v], Tail(new_data),
                                   old_state @@ (k :> obj[k]),
                                   new_state @@ (k :> v))
                  ELSE update_loop(obj, Tail(new_data), old_state, new_state)
             ELSE [obj |-> obj, old_state |-> old_state,
                   new_state |-> new_state, raised |-> TRUE]

update_object_NoSkip(obj, new_data) ==
    LET keys == {new_data[i][1] : i \in 1..Len(new_data)} \cap DOMAIN obj
        value(k) == new_data[CHOOSE i \in 1..Len(new_data) : new_data[i][1] = k][2]
    IN  [obj |-> [k \in DOMAIN obj |-> IF k \in keys THEN value(k) ELSE obj[k]],
         old_state |-> [k \in keys |-> obj[k]],
         new_state |-> [k \in keys |-> value(k)],
         raised |-> FALSE]

\* update_object: applies new_data to obj, returns the diff; BadRequest on a
\* key obj does not have (fields set before it stay set)
update_object(obj, new_data) == update_loop(obj, new_data, << >>, << >>)

\* aio_update with commit=True, save_if_no_diff=True: the row written by
\* aio_save (add, commit, refresh)
aio_update_NoWrite(self, new_data) == self

aio_update(self, new_data) ==
    update_object(self, _get_instance_data(new_data)).obj

NewUser_Active(id) ==
    [id |-> id, email |-> NoEmail, password_hash |-> NonePwHash, is_active |-> TRUE,
     confirmed_at |-> NoneTime, last_login_at |-> NoneTime,
     last_login_ip |-> NoneStr, reset_code_hash |-> NoneHash,
     reset_code_expiration |-> NoneTime]

\* a new User row before its attributes are set: the column defaults
NewUser(id) ==
    [id |-> id, email |-> NoEmail, password_hash |-> NonePwHash, is_active |-> FALSE,
     confirmed_at |-> NoneTime, last_login_at |-> NoneTime,
     last_login_ip |-> NoneStr, reset_code_hash |-> NoneHash,
     reset_code_expiration |-> NoneTime]

\* aio_create with commit=True: cls(**_get_instance_data(new_data)) as
\* written by aio_save (add, commit, refresh)
aio_create(new_data, id) ==
    update_object(NewUser(id), _get_instance_data(new_data)).obj

\* ---------------------------------------------------- app/models/user.py
verify_reset_code_NoExpiry(self, code, now_) ==
    /\ self.reset_code_hash # NoneHash
    /\ self.reset_code_expiration # NoneTime
    /\ verify_password(code, self.reset_code_hash)

\* User.verify_reset_code
verify_reset_code(self, code, now_) ==
    /\ self.reset_code_hash # NoneHash
    /\ self.reset_code_expiration # NoneTime
    /\ self.reset_code_expiration > now_
    /\ verify_password(code, self.reset_code_hash)

\* the calls verify_reset_code makes to pwd_context: `and` stops at the
\* first operand that is false, so verify_password runs only for a code
\* that is pending and not expired
verify_reset_code_pwd(self, now_) ==
    IF /\ self.reset_code_hash # NoneHash
       /\ self.reset_code_expiration # NoneTime
       /\ self.reset_code_expiration > now_
    THEN <<"verify">>
    ELSE << >>

\* -------------------------------------------------- app/api/exceptions.py
AuthenticationFailed(detail) ==
    [status |-> 401, kind |-> "AuthenticationFailed", detail |-> detail]
AuthenticationFailedDefault ==
    AuthenticationFailed("Incorrect authentication credentials")
UnprocessableInput(detail) ==
    [status |-> 422, kind |-> "UnprocessableInput", detail |-> detail]
NotFound(detail) ==
    [status |-> 404, kind |-> "NotFound", detail |-> detail]
\* what the framework answers around the handlers
Ok == [status |-> 200, kind |-> "OK", detail |-> ""]
RequestValidationError ==
    [status |-> 422, kind |-> "RequestValidationError", detail |-> "value_error"]
IntegrityError ==
    [status |-> 500, kind |-> "IntegrityError", detail |-> "Internal Server Error"]
CredentialsException ==
    [status |-> 401, kind |-> "HTTPException", detail |-> "Could not validate credentials"]
InactiveUser ==
    [status |-> 400, kind |-> "HTTPException", detail |-> "Inactive user"]

InvalidCode == AuthenticationFailed("Invalid or expired reset code")
AlreadyActivated == AuthenticationFailed("User is already activated")
MayNotBeIdentical ==
    UnprocessableInput("New password may not be identical to the previous one")

VARIABLES
    users,    \* the user table: email -> row
    now,      \* dt.datetime.now(), minutes
    ncodes,   \* draws of secrets.token_urlsafe stored or mailed so far
    nsalts,   \* bcrypt salts of the hashes stored so far
    mails,    \* messages handed to background_tasks.add_task
    held,     \* the bearer token the client keeps
    consumed, \* <<email, code>> of every code a confirm or reset used up
    resp,     \* the last request and its response
    inflight, \* request slot -> the UPDATE its handler built from the row it
              \* loaded and has not committed yet (used by SpecConc only)
    call,     \* the call of an ActiveRecord method the session is in, with
              \* what it did and returns, until the caller has the result
              \* (used by SpecAR, SpecUnit and SpecPage)
    session,  \* the unit of work of the caller's Session: what it holds that
              \* is not flushed to the database yet (used by SpecUnit only)
    scope     \* the Session objects made so far, and for each request slot
              \* where its session dependency stands (used by SpecScope only)

vars == <<users, now, ncodes, nsalts, mails, held, consumed, resp, inflight,
          call, session, scope>>

\* request slots; a slot outside DOMAIN inflight holds no request
Procs == 1..MaxProcs
NoMail == [to |-> NoEmail, link |-> "", code |-> 0, template |-> ""]

NoCall == [op |-> "none", raised |-> NoneStr]

\* a request slot no request has used: dep is the dependency the endpoint
\* declares, pc where its generator stands, db the Session it yielded,
\* opened and released how often a Session was made and closed for the
\* request, raised what the request ended with
NoRequest == [dep |-> NoneStr, pc |-> "idle", db |-> 0, opened |-> 0,
              released |-> 0, raised |-> NoneStr]

\* a Session that holds nothing to flush.  new: the instances added and not
\* inserted yet; deleted: the emails of the rows marked by session.delete;
\* applied: the table the caller's calls on this session amount to
NoUnit == [new |-> {}, deleted |-> {}, applied |-> << >>]

\* User.aio_get_by_email: filter(User.email == email), scalar_one_or_none
UserExists(email) == email \in DOMAIN users

\* the body of a response that is no page
NoPage == [items |-> << >>, num_items |-> -1, total_items |-> -1]

Response(op, email, code, password, outcome, token, dto) ==
    [op |-> op, email |-> email, code |-> code, password |-> password,
     status |-> outcome.status, kind |-> outcome.kind, detail |-> outcome.detail,
     access_token |-> token,
     token_type |-> IF token = NoToken THEN "" ELSE "bearer",
     user |-> dto, pwd |-> << >>, bearer |-> NoToken, page |-> NoPage]

\* a response with the calls its handler made to pwd_context (hash, verify,
\* dummy_verify: one bcrypt computation each) and to aio_get_by_email, in
\* the order of the code
Traced(response, calls) == [response EXCEPT !.pwd = calls]

\* a response with the bearer token its request presented
Presented(response, token) == [response EXCEPT !.bearer = token]

\* a response whose body is a PageableResponseDTO
Paged(response, page) == [response EXCEPT !.page = page]

UserDTO(u) ==
    [id |-> u.id, email |-> u.email, is_active |-> u.is_active,
     confirmed_at |-> u.confirmed_at, last_login_at |-> u.last_login_at,
     last_login_ip |-> u.last_login_ip]

Init ==
    /\ users = << >>
    /\ now = 0
    /\ ncodes = 0
    /\ nsalts = 0
    /\ mails = {}
    /\ held = NoToken
    /\ consumed = {}
    /\ resp = Response("none", NoEmail, 0, << >>, Ok, NoToken, NoDTO)
    /\ inflight = << >>
    /\ call = NoCall
    /\ session = NoUnit
    /\ scope = [made |-> 0, of |-> [p \in Procs |-> NoRequest]]

\* time passes between requests
Tick ==
    /\ now < MaxNow
    /\ now' = now + TickMinutes
    /\ UNCHANGED <<users, ncodes, nsalts, mails, held, consumed, resp, inflight, call, session, scope>>

\* POST /v1/auth/register
register_user(email, password) ==
    IF ~password_requirements(password)
    THEN \* RegisterUserDTO is rejected before the handler runs
         /\ resp' = Response("register", email, 0, password, RequestValidationError, NoToken, NoDTO)
         /\ UNCHANGED <<users, now, ncodes, nsalts, mails, held, consumed, inflight, call, session, scope>>
    ELSE /\ ncodes < MaxCodes
         /\ LET code == generate_reset_code(ncodes + 1, nsalts + 1)
                user == aio_create(
                            << <<"email", email>>,
                               <<"password_hash",
                                 get_password_hash(password, nsalts + 2)>>,
                               <<"reset_code_hash", code.hash>>,
                               <<"reset_code_expiration",
                                 now + RESET_TOKEN_EXPIRE_MINUTES>> >>,
                            Cardinality(DOMAIN users) + 1)
            IN  /\ IF UserExists(email)
                   THEN \* unique index on email: the commit of aio_save fails;
                        \* the code and the two salts drawn for this request
                        \* are dropped with it and are numbered again
                        /\ resp' = Traced(Response("register", email, 0, password, IntegrityError, NoToken, NoDTO), <<"hash", "hash">>)
                        /\ UNCHANGED <<users, mails, ncodes, nsalts, call, session, scope>>
                   ELSE /\ ncodes' = ncodes + 1
                        /\ nsalts' = nsalts + 2
                        /\ users' = users @@ (email :> user)
                        /\ mails' = mails \cup
                               {[to |-> email, link |-> "confirm",
                                 code |-> code.code,
                                 template |-> "auth/confirm_email.html"]}
                        /\ resp' = Traced(Response("register", email, 0, password, Ok, NoToken, UserDTO(user)), <<"hash", "hash">>)
         /\ UNCHANGED <<now, held, consumed, inflight, call, session, scope>>

confirm_new_data_KeepsCode(now_) ==
    << <<"is_active", TRUE>>,
       <<"confirmed_at", now_>> >>

confirm_new_data_NoActivate(now_) ==
    << <<"confirmed_at", now_>>,
       <<"reset_code_hash", NoneHash>>,
       <<"reset_code_expiration", NoneTime>> >>

\* the dict confirm_user passes to aio_update
confirm_new_data(now_) ==
    << <<"is_active", TRUE>>,
       <<"confirmed_at", now_>>,
       <<"reset_code_hash", NoneHash>>,
       <<"reset_code_expiration", NoneTime>> >>

confirm_user_ActiveFirst(email, code) ==
    /\ IF ~UserExists(email)
       THEN /\ resp' = Response("confirm", email, code, << >>, InvalidCode, NoToken, NoDTO)
            /\ UNCHANGED <<users, consumed, call, session, scope>>
       ELSE LET user == users[email] IN
            IF user.is_active
            THEN /\ resp' = Response("confirm", email, code, << >>, AlreadyActivated, NoToken, NoDTO)
                 /\ UNCHANGED <<users, consumed, call, session, scope>>
            ELSE IF ~verify_reset_code(user, code, now)
            THEN /\ resp' = Response("confirm", email, code, << >>, InvalidCode, NoToken, NoDTO)
                 /\ UNCHANGED <<users, consumed, call, session, scope>>
            ELSE /\ users' = [users EXCEPT ![email] =
                                    aio_update(user, confirm_new_data(now))]
                 /\ consumed' = consumed \cup {<<email, code>>}
                 /\ resp' = Response("confirm", email, code, << >>, Ok, NoToken, NoDTO)
    /\ UNCHANGED <<now, ncodes, nsalts, mails, held, inflight, call, session, scope>>

\* POST /v1/auth/confirm
confirm_user(email, code) ==
    /\ IF ~UserExists(email)
       THEN \* pwd_context.dummy_verify()
            /\ resp' = Traced(Response("confirm", email, code, << >>, InvalidCode, NoToken, NoDTO), <<"get_by_email">> \o dummy_verify)
            /\ UNCHANGED <<users, consumed, call, session, scope>>
       ELSE LET user == users[email] IN
            IF ~verify_reset_code(user, code, now)
            THEN /\ resp' = Traced(Response("confirm", email, code, << >>, InvalidCode, NoToken, NoDTO), <<"get_by_email">> \o verify_reset_code_pwd(user, now))
                 /\ UNCHANGED <<users, consumed, call, session, scope>>
            ELSE IF user.is_active
            THEN /\ resp' = Traced(Response("confirm", email, code, << >>, AlreadyActivated, NoToken, NoDTO), <<"get_by_email">> \o verify_reset_code_pwd(user, now))
                 /\ UNCHANGED <<users, consumed, call, session, scope>>
            ELSE /\ users' = [users EXCEPT ![email] =
                                    aio_update(user, confirm_new_data(now))]
                 /\ consumed' = consumed \cup {<<email, code>>}
                 /\ resp' = Traced(Response("confirm", email, code, << >>, Ok, NoToken, NoDTO), <<"get_by_email">> \o verify_reset_code_pwd(user, now))
    /\ UNCHANGED <<now, ncodes, nsalts, mails, held, inflight, call, session, scope>>

authenticate_user_NoConfirmCheck(username, password) ==
    /\ IF ~UserExists(username)
       THEN /\ resp' = Response("login", username, 0, password, AuthenticationFailedDefault, NoToken, NoDTO)
            /\ UNCHANGED held
       ELSE LET user == users[username] IN
            IF ~verify_password(password, user.password_hash)
            THEN /\ resp' = Response("login", username, 0, password, AuthenticationFailedDefault, NoToken, NoDTO)
                 /\ UNCHANGED held
            ELSE LET access_token == create_access_token(username, now) IN
                 /\ resp' = Response("login", username, 0, password, Ok, access_token, NoDTO)
                 /\ held' \in {held, access_token}
    /\ UNCHANGED <<users, now, ncodes, nsalts, mails, consumed, inflight, call, session, scope>>

authenticate_user_RecordsLogin(username, password) ==
    /\ IF ~UserExists(username)
       THEN /\ resp' = Traced(Response("login", username, 0, password, AuthenticationFailedDefault, NoToken, NoDTO), <<"get_by_email">> \o dummy_verify)
            /\ UNCHANGED <<users, held>>
       ELSE LET user == users[username] IN
            IF user.confirmed_at = NoneTime
            THEN /\ resp' = Traced(Response("login", username, 0, password, AuthenticationFailedDefault, NoToken, NoDTO), <<"get_by_email">> \o dummy_verify)
                 /\ UNCHANGED <<users, held>>
            ELSE IF ~verify_password(password, user.password_hash)
            THEN /\ resp' = Traced(Response("login", username, 0, password, AuthenticationFailedDefault, NoToken, NoDTO), <<"get_by_email", "verify">>)
                 /\ UNCHANGED <<users, held>>
            ELSE LET access_token == create_access_token(username, now) IN
                 /\ resp' = Traced(Response("login", username, 0, password, Ok, access_token, NoDTO), <<"get_by_email", "verify">>)
                 /\ users' = [users EXCEPT ![username].last_login_at = now]
                 /\ held' \in {held, access_token}
    /\ UNCHANGED <<now, ncodes, nsalts, mails, consumed, inflight, call, session, scope>>

\* POST /v1/auth/login
authenticate_user(username, password) ==
    /\ IF ~UserExists(username)
       THEN \* pwd_context.dummy_verify()
            /\ resp' = Traced(Response("login", username, 0, password, AuthenticationFailedDefault, NoToken, NoDTO), <<"get_by_email">> \o dummy_verify)
            /\ UNCHANGED held
       ELSE LET user == users[username] IN
            IF user.confirmed_at = NoneTime
            THEN \* pwd_context.dummy_verify()
                 /\ resp' = Traced(Response("login", username, 0, password, AuthenticationFailedDefault, NoToken, NoDTO), <<"get_by_email">> \o dummy_verify)
                 /\ UNCHANGED held
            ELSE IF ~verify_password(password, user.password_hash)
            THEN /\ resp' = Traced(Response("login", username, 0, password, AuthenticationFailedDefault, NoToken, NoDTO), <<"get_by_email", "verify">>)
                 /\ UNCHANGED held
            ELSE LET access_token == create_access_token(username, now) IN
                 /\ resp' = Traced(Response("login", username, 0, password, Ok, access_token, NoDTO), <<"get_by_email", "verify">>)
                 /\ held' \in {held, access_token}
    /\ UNCHANGED <<users, now, ncodes, nsalts, mails, consumed, inflight, call, session, scope>>

\* the dict send_password_reset_email passes to aio_update
forgot_new_data(hash, now_) ==
    << <<"reset_code_hash", hash>>,
       <<"reset_code_expiration", now_ + RESET_TOKEN_EXPIRE_MINUTES>> >>

send_password_reset_email_MailsAnyway(email) ==
    /\ ncodes < MaxCodes
    /\ LET code == generate_reset_code(ncodes + 1, nsalts + 1) IN
       /\ ncodes' = ncodes + 1
       /\ nsalts' = nsalts + 1
       /\ IF ~UserExists(email)
          THEN UNCHANGED users
          ELSE users' = [users EXCEPT ![email] =
                   aio_update(users[email], forgot_new_data(code.hash, now))]
       /\ mails' = mails \cup
              {[to |-> email, link |-> "reset_password", code |-> code.code,
                template |-> "auth/reset_email.html"]}
    /\ resp' = Response("forgot_password", email, 0, << >>, Ok, NoToken, NoDTO)
    /\ UNCHANGED <<now, held, consumed, inflight, call, session, scope>>

\* POST /v1/auth/forgot_password
send_password_reset_email(email) ==
    /\ ncodes < MaxCodes
    /\ LET code == generate_reset_code(ncodes + 1, nsalts + 1) IN
       /\ IF ~UserExists(email)
          THEN \* `return {}`: the code generated above is stored nowhere
               UNCHANGED <<users, mails, ncodes, nsalts, call, session, scope>>
          ELSE /\ ncodes' = ncodes + 1
               /\ nsalts' = nsalts + 1
               /\ users' = [users EXCEPT ![email] =
                      aio_update(users[email], forgot_new_data(code.hash, now))]
               /\ mails' = mails \cup
                      {[to |-> email, link |-> "reset_password",
                        code |-> code.code,
                        template |-> "auth/reset_email.html"]}
    /\ resp' = Traced(Response("forgot_password", email, 0, << >>, Ok, NoToken, NoDTO), <<"hash", "get_by_email">>)
    /\ UNCHANGED <<now, held, consumed, inflight, call, session, scope>>

check_password_reset_code_Leaky(email, code) ==
    /\ IF ~UserExists(email)
       THEN resp' = Response("check_reset_code", email, code, << >>,
                             NotFound("Not found"), NoToken, NoDTO)
       ELSE IF ~verify_reset_code(users[email], code, now)
       THEN resp' = Response("check_reset_code", email, code, << >>, InvalidCode, NoToken, NoDTO)
       ELSE resp' = Response("check_reset_code", email, code, << >>, Ok, NoToken, NoDTO)
    /\ UNCHANGED <<users, now, ncodes, nsalts, mails, held, consumed, inflight, call, session, scope>>

check_password_reset_code_Consumes(email, code) ==
    /\ IF ~UserExists(email)
       THEN /\ resp' = Response("check_reset_code", email, code, << >>, InvalidCode, NoToken, NoDTO)
            /\ UNCHANGED users
       ELSE IF ~verify_reset_code(users[email], code, now)
       THEN /\ resp' = Response("check_reset_code", email, code, << >>, InvalidCode, NoToken, NoDTO)
            /\ UNCHANGED users
       ELSE /\ resp' = Response("check_reset_code", email, code, << >>, Ok, NoToken, NoDTO)
            /\ users' = [users EXCEPT ![email] =
                   [@ EXCEPT !.reset_code_hash = NoneHash,
                             !.reset_code_expiration = NoneTime]]
    /\ UNCHANGED <<now, ncodes, nsalts, mails, held, consumed, inflight, call, session, scope>>

\* POST /v1/auth/check_reset_code
check_password_reset_code(email, code) ==
    /\ IF ~UserExists(email)
       THEN \* pwd_context.dummy_verify()
            resp' = Traced(Response("check_reset_code", email, code, << >>, InvalidCode, NoToken, NoDTO), <<"get_by_email">> \o dummy_verify)
       ELSE IF ~verify_reset_code(users[email], code, now)
       THEN resp' = Traced(Response("check_reset_code", email, code, << >>, InvalidCode, NoToken, NoDTO), <<"get_by_email">> \o verify_reset_code_pwd(users[email], now))
       ELSE resp' = Traced(Response("check_reset_code", email, code, << >>, Ok, NoToken, NoDTO), <<"get_by_email">> \o verify_reset_code_pwd(users[email], now))
    /\ UNCHANGED <<users, now, ncodes, nsalts, mails, held, consumed, inflight, call, session, scope>>

reset_new_data_Activates(password_hash) ==
    << <<"password_hash", password_hash>>,
       <<"is_active", TRUE>>,
       <<"reset_code_hash", NoneHash>>,
       <<"reset_code_expiration", NoneTime>> >>

\* the dict reset_password passes to aio_update
reset_new_data(password_hash) ==
    << <<"password_hash", password_hash>>,
       <<"reset_code_hash", NoneHash>>,
       <<"reset_code_expiration", NoneTime>> >>

\* POST /v1/auth/reset_password
reset_password(email, code, password) ==
    IF ~password_requirements(password)
    THEN \* PasswordResetDTO inherits the validator of RegisterUserDTO
         /\ resp' = Response("reset_password", email, code, password, RequestValidationError, NoToken, NoDTO)
         /\ UNCHANGED <<users, now, ncodes, nsalts, mails, held, consumed, inflight, call, session, scope>>
    ELSE /\ IF ~UserExists(email)
            THEN \* pwd_context.dummy_verify()
                 /\ resp' = Traced(Response("reset_password", email, code, password, InvalidCode, NoToken, NoDTO), <<"get_by_email">> \o dummy_verify)
                 /\ UNCHANGED <<users, nsalts, held, consumed, call, session, scope>>
            ELSE LET user == users[email] IN
                 IF ~verify_reset_code(user, code, now)
                 THEN /\ resp' = Traced(Response("reset_password", email, code, password, InvalidCode, NoToken, NoDTO), <<"get_by_email">> \o verify_reset_code_pwd(user, now))
                      /\ UNCHANGED <<users, nsalts, held, consumed, call, session, scope>>
                 ELSE IF verify_password(password, user.password_hash)
                 THEN /\ resp' = Traced(Response("reset_password", email, code, password, MayNotBeIdentical, NoToken, NoDTO), <<"get_by_email", "verify", "verify">>)
                      /\ UNCHANGED <<users, nsalts, held, consumed, call, session, scope>>
                 ELSE LET access_token == create_access_token(email, now) IN
                      /\ users' = [users EXCEPT ![email] = aio_update(user,
                             reset_new_data(
                                 get_password_hash(password, nsalts + 1)))]
                      /\ nsalts' = nsalts + 1
                      /\ consumed' = consumed \cup {<<email, code>>}
                      /\ resp' = Traced(Response("reset_password", email, code, password, Ok, access_token, NoDTO), <<"get_by_email", "verify", "verify", "hash">>)
                      /\ held' \in {held, access_token}
         /\ UNCHANGED <<now, ncodes, mails, inflight, call, session, scope>>

\* ----------------------------------------------------- app/api/deps.py
jwt_decode_ok_NoExpiry(token, utcnow) == token.sig = "good"

\* jwt.decode: the token is parsed, its signature and exp are verified; a
\* string that is no JWT, a signature made with another key and an exp
\* that has passed raise JWTError
jwt_decode_ok(token, utcnow) == token.sig = "good" /\ token.exp >= utcnow

RequestUser_NoActiveCheck(token) ==
    IF token = NoToken
    THEN [status |-> 401, kind |-> "HTTPException", detail |-> "Not authenticated"]
    ELSE IF ~jwt_decode_ok(token, now) THEN CredentialsException
    ELSE IF token.sub = NoEmail THEN CredentialsException
    ELSE IF ~UserExists(token.sub) THEN CredentialsException
    ELSE Ok

\* get_current_user, then get_current_active_user: the outcome of the
\* RequestUser dependency for the presented token
RequestUser(token) ==
    IF token = NoToken
    THEN [status |-> 401, kind |-> "HTTPException", detail |-> "Not authenticated"]
    ELSE IF ~jwt_decode_ok(token, now) THEN CredentialsException
    \* payload.get("sub") is None
    ELSE IF token.sub = NoEmail THEN CredentialsException
    ELSE IF ~UserExists(token.sub) THEN CredentialsException
    ELSE IF ~users[token.sub].is_active THEN InactiveUser
    ELSE Ok

\* GET /v1/users: User.aio_get_all(session=db) with the defaults offset 0,
\* limit 100, no sort and no ids, serialised as PageableResponseDTO[UserDTO]
get_users(token) ==
    /\ IF RequestUser(token) # Ok
       THEN resp' = Presented(Response("get_users", NoEmail, 0, << >>, RequestUser(token), NoToken, NoDTO), token)
       ELSE LET stmt == get_list_query({}, << >>)
                matching == Matching(users, stmt.where)
            IN  \E rows \in Orderings(matching, stmt.order_by) :
                    resp' = Presented(Paged(
                        Response("get_users", NoEmail, 0, << >>, Ok, NoToken, NoDTO),
                        PageableResponseDTO(
                            Page([i \in 1..Len(rows) |-> UserDTO(rows[i])],
                                 0, DefaultLimit),
                            Cardinality(matching))), token)
    /\ UNCHANGED <<users, now, ncodes, nsalts, mails, held, consumed, inflight, call, session, scope>>

\* the dict resend_confirmation_email passes to aio_update
resend_new_data(hash, now_) ==
    << <<"reset_code_hash", hash>>,
       <<"reset_code_expiration", now_ + RESET_TOKEN_EXPIRE_MINUTES>> >>

\* POST /v1/users/resend_confirmation
resend_confirmation_email(token, email) ==
    /\ IF RequestUser(token) # Ok
       THEN /\ resp' = Presented(Response("resend_confirmation", email, 0, << >>, RequestUser(token), NoToken, NoDTO), token)
            /\ UNCHANGED <<users, ncodes, nsalts, mails, call, session, scope>>
       ELSE IF ~UserExists(email)
       THEN \* aio_get_by_email(raise_if_not_found=True)
            /\ resp' = Presented(Traced(Response("resend_confirmation", email, 0, << >>, NotFound("User with id <built-in function id> not found"), NoToken, NoDTO), <<"get_by_email">>), token)
            /\ UNCHANGED <<users, ncodes, nsalts, mails, call, session, scope>>
       ELSE /\ ncodes < MaxCodes
            /\ LET code == generate_reset_code(ncodes + 1, nsalts + 1) IN
               /\ ncodes' = ncodes + 1
               /\ nsalts' = nsalts + 1
               /\ users' = [users EXCEPT ![email] =
                      aio_update(users[email], resend_new_data(code.hash, now))]
               /\ mails' = mails \cup
                      {[to |-> email, link |-> "confirm",
                        code |-> code.code,
                        template |-> "auth/confirm_email.html"]}
            /\ resp' = Presented(Traced(Response("resend_confirmation", email, 0, << >>, Ok, NoToken, NoDTO), <<"get_by_email", "hash">>), token)
    /\ UNCHANGED <<now, held, consumed, inflight, call, session, scope>>

Next ==
    \/ Tick
    \/ \E e \in Registrable, p \in Passwords : register_user(e, p)
    \/ \E e \in Emails, c \in PresentedCodes : confirm_user(e, c)
    \/ \E e \in Emails, p \in Passwords : authenticate_user(e, p)
    \/ \E e \in Emails : send_password_reset_email(e)
    \/ \E e \in Emails, c \in PresentedCodes : check_password_reset_code(e, c)
    \/ \E e \in Emails, c \in PresentedCodes, p \in Passwords :
           reset_password(e, c, p)
    \/ \E e \in Emails : resend_confirmation_email(held, e)

Spec == Init /\ [][Next]_vars

\* ------------------------------------------------ concurrent requests
\* Every request has an AsyncSession of its own (get_aio_db).  A handler
\* that writes awaits twice: aio_get_by_email loads the row into its
\* session, and aio_update -> aio_save commits.  In between, without an
\* await, it checks the loaded row and update_object sets the attributes
\* whose loaded value differs; the flush at commit is an UPDATE of exactly
\* those columns.  Other requests run between the two awaits.

\* the UPDATE ... SET <changed columns> of a flush, on the committed row
Flush(row, new_state) ==
    [k \in DOMAIN row |->
        IF k \in DOMAIN new_state THEN new_state[k] ELSE row[k]]

\* what update_object marks as changed on the loaded row
Dirty(loaded, new_data) ==
    update_object(loaded, _get_instance_data(new_data)).new_state

\* confirm_user up to the await of aio_update
confirm_user_load(p, email, code) ==
    /\ p \notin DOMAIN inflight
    /\ UserExists(email)
    /\ verify_reset_code(users[email], code, now)
    /\ ~users[email].is_active
    /\ inflight' = inflight @@ (p :>
           [op |-> "confirm", email |-> email, code |-> code,
            new_state |-> Dirty(users[email], confirm_new_data(now)),
            mail |-> NoMail])
    /\ UNCHANGED <<users, now, ncodes, nsalts, mails, held, consumed, resp, call, session, scope>>

\* send_password_reset_email up to the await of aio_update
send_password_reset_email_load(p, email) ==
    /\ p \notin DOMAIN inflight
    /\ ncodes < MaxCodes
    /\ UserExists(email)
    /\ LET code == generate_reset_code(ncodes + 1, nsalts + 1) IN
       inflight' = inflight @@ (p :>
           [op |-> "forgot_password", email |-> email, code |-> code.code,
            new_data |-> forgot_new_data(code.hash, now),
            new_state |-> Dirty(users[email], forgot_new_data(code.hash, now)),
            mail |-> [to |-> email, link |-> "reset_password",
                      code |-> code.code,
                      template |-> "auth/reset_email.html"]])
    /\ ncodes' = ncodes + 1
    /\ nsalts' = nsalts + 1
    /\ UNCHANGED <<users, now, mails, held, consumed, resp, call, session, scope>>

\* resend_confirmation_email up to the await of aio_update
resend_confirmation_email_load(p, token, email) ==
    /\ p \notin DOMAIN inflight
    /\ ncodes < MaxCodes
    /\ RequestUser(token) = Ok
    /\ UserExists(email)
    /\ LET code == generate_reset_code(ncodes + 1, nsalts + 1) IN
       inflight' = inflight @@ (p :>
           [op |-> "resend_confirmation", email |-> email, code |-> code.code,
            new_state |-> Dirty(users[email], resend_new_data(code.hash, now)),
            mail |-> [to |-> email, link |-> "confirm", code |-> code.code,
                      template |-> "auth/confirm_email.html"]])
    /\ ncodes' = ncodes + 1
    /\ nsalts' = nsalts + 1
    /\ UNCHANGED <<users, now, mails, held, consumed, resp, call, session, scope>>

\* reset_password up to the await of aio_update
reset_password_load(p, email, code, password) ==
    /\ p \notin DOMAIN inflight
    /\ password_requirements(password)
    /\ UserExists(email)
    /\ verify_reset_code(users[email], code, now)
    /\ ~verify_password(password, users[email].password_hash)
    /\ inflight' = inflight @@ (p :>
           [op |-> "reset_password", email |-> email, code |-> code,
            new_state |-> Dirty(users[email],
                reset_new_data(get_password_hash(password, nsalts + 1))),
            mail |-> NoMail])
    /\ nsalts' = nsalts + 1
    /\ UNCHANGED <<users, now, ncodes, mails, held, consumed, resp, call, session, scope>>

\* aio_save: session.add, commit (the flush), refresh; then the handler
\* schedules its mail and returns
commit(p) ==
    /\ p \in DOMAIN inflight
    /\ LET r == inflight[p] IN
       /\ users' = [users EXCEPT ![r.email] = Flush(@, r.new_state)]
       /\ mails' = IF r.mail = NoMail THEN mails ELSE mails \cup {r.mail}
       /\ consumed' = IF r.op \in {"confirm", "reset_password"}
                      THEN consumed \cup {<<r.email, r.code>>}
                      ELSE consumed
    /\ inflight' = [q \in DOMAIN inflight \ {p} |-> inflight[q]]
    /\ UNCHANGED <<now, ncodes, nsalts, held, resp, call, session, scope>>

\* register_user and authenticate_user touch the database in one statement
\* and run as in Spec
NextConc ==
    \/ Tick
    \/ \E e \in Registrable, p \in Passwords : register_user(e, p)
    \/ \E e \in Emails, p \in Passwords : authenticate_user(e, p)
    \/ \E p \in Procs, e \in Emails, c \in PresentedCodes :
           confirm_user_load(p, e, c)
    \/ \E p \in Procs, e \in Emails : send_password_reset_email_load(p, e)
    \/ \E p \in Procs, e \in Emails : resend_confirmation_email_load(p, held, e)
    \/ \E p \in Procs, e \in Emails, c \in PresentedCodes, pw \in Passwords :
           reset_password_load(p, e, c, pw)
    \/ \E p \in Procs : commit(p)

SpecConc == Init /\ [][NextConc]_vars

\* ------------------------------------------ overlapping forgot_password
\* Requests for a new reset code of a user who registered and confirmed
\* earlier: without a code pending, or with one from a forgot_password
\* that committed TickMinutes ago or at the clock reading of the start.

\* the code of that earlier request
PriorCode == MaxCodes + 1

ForgetfulUser ==
    [NewUser(1) EXCEPT !.email = Email(<<"a">>, XCom),
                       !.password_hash = get_password_hash(PwA, 1),
                       !.is_active = TRUE,
                       !.confirmed_at = 0]
ForgetfulUsers ==
    {ForgetfulUser,
     aio_update(ForgetfulUser,
                forgot_new_data(pwd_hash(PriorCode, 2), 0 - TickMinutes)),
     aio_update(ForgetfulUser, forgot_new_data(pwd_hash(PriorCode, 2), 0))}

InitForgot ==
    /\ \E u \in ForgetfulUsers : users = (u.email :> u)
    /\ now = 0
    /\ ncodes = 0
    /\ nsalts = 2
    /\ mails = {}
    /\ held = NoToken
    /\ consumed = {}
    /\ resp = Response("none", NoEmail, 0, << >>, Ok, NoToken, NoDTO)
    /\ inflight = << >>
    /\ call = NoCall
    /\ session = NoUnit
    /\ scope = [made |-> 0, of |-> [p \in Procs |-> NoRequest]]

NextForgot ==
    \/ Tick
    \/ \E p \in Procs, e \in Emails : send_password_reset_email_load(p, e)
    \/ \E p \in Procs : commit(p)

SpecForgot == InitForgot /\ [][NextForgot]_vars

\* ------------------------------------------------ spellings of an email
\* The requests of Spec carry emails EmailStr leaves as they are.  Here the
\* caller spells one address in several letter cases; login takes the
\* username of the OAuth2 form as written, the other bodies pass EmailStr.
NextEmail ==
    \/ Tick
    \/ \E e \in RawEmails : register_user(EmailStr(e), PwA)
    \/ \E e \in RawEmails, c \in PresentedCodes : confirm_user(EmailStr(e), c)
    \/ \E e \in RawEmails, p \in {PwA, PwB} : authenticate_user(e, p)
    \/ \E e \in RawEmails : send_password_reset_email(EmailStr(e))
    \/ \E e \in RawEmails, c \in PresentedCodes :
           check_password_reset_code(EmailStr(e), c)
    \/ \E e \in RawEmails, c \in PresentedCodes :
           reset_password(EmailStr(e), c, PwB)

SpecEmail == Init /\ [][NextEmail]_vars

\* ------------------------------------------------- presented tokens
\* The requests of Spec present the token the client was given.  Here the
\* authenticated endpoints are called with any token of PresentedTokens.
NextToken ==
    \/ Tick
    \/ \E e \in Registrable, p \in {PwA} : register_user(e, p)
    \/ \E e \in Emails, c \in PresentedCodes : confirm_user(e, c)
    \/ \E t \in PresentedTokens, e \in Emails : resend_confirmation_email(t, e)
    \/ \E t \in PresentedTokens : get_users(t)

SpecToken == Init /\ [][NextToken]_vars

\* --------------------------------------------- calls of ActiveRecord
\* The methods of app/db/active_record.py called on User with payloads the
\* request handlers do not send: keys that are no column, values equal to
\* the stored ones, save_if_no_diff=False.  commit is left at its default.

\* payloads of create: email and password_hash, or email alone, with or
\* without a key that is no attribute of User
CreatePayloads ==
    UNION {
        { << <<"email", e>>, <<"password_hash", get_password_hash(PwA, 1)>> >>,
          << <<"email", e>>, <<"nickname", "n">>,
             <<"password_hash", get_password_hash(PwA, 1)>> >>,
          << <<"email", e>> >> } : e \in AREmails }

\* payloads of update: one or two keys, in either order of the dict
UpdatePairs == {<<"is_active", TRUE>>, <<"is_active", FALSE>>,
                <<"last_login_ip", NoneStr>>, <<"nickname", "n">>}
UpdatePayloads ==
    {<< >>} \cup {<<a>> : a \in UpdatePairs}
            \cup {x \in UpdatePairs \X UpdatePairs : x[1][1] # x[2][1]}

\* the keys of a dict, and the value under a key
Keys(new_data) == {new_data[i][1] : i \in 1..Len(new_data)}
ValueOf(new_data, k) ==
    new_data[CHOOSE i \in 1..Len(new_data) : new_data[i][1] = k][2]

\* the parameters of save(self, session, commit=True) and of
\* aio_save(self, session, commit=True) after self
save_params == <<"session", "commit">>

\* Python's argument binding: positional arguments fill the parameters in
\* order; a keyword that names a parameter a positional argument has filled
\* is a TypeError (multiple values for the argument)
MultipleValues(params, npositional, keywords) ==
    \E i \in 1..npositional : params[i] \in keywords

\* NOT NULL columns of User without a default
NotNullable(row) == row.email # NoEmail /\ row.password_hash # NonePwHash

\* ActiveRecord.aio_create(new_data, session)
aio_create_call(new_data) ==
    /\ call = NoCall
    /\ Cardinality(DOMAIN users) < MaxRows
    \* an email already stored, or the next one of ARLocals
    /\ \E i \in 1..(Cardinality(DOMAIN users) + 1) :
           ValueOf(new_data, "email") = Email(<<ARLocals[i]>>, XCom)
    /\ LET instance == aio_create(new_data, Cardinality(DOMAIN users) + 1)
           \* instance.aio_save(session=session, commit=commit)
           bound == ~MultipleValues(save_params, 0, {"session", "commit"})
           stored == bound /\ NotNullable(instance)
                           /\ ~UserExists(instance.email)
       IN  /\ users' = IF stored THEN users @@ (instance.email :> instance)
                       ELSE users
           /\ call' = [op |-> "aio_create", new_data |-> new_data,
                       add |-> bound, commit |-> stored,
                       entity |-> instance,
                       raised |-> IF ~bound THEN "TypeError"
                                  ELSE IF ~stored THEN "IntegrityError"
                                  ELSE NoneStr]
    /\ UNCHANGED <<now, ncodes, nsalts, mails, held, consumed, resp, inflight, session, scope>>

\* the body shared by update, update_with_diff, aio_update and
\* aio_update_with_diff: _get_instance_data, update_object, then the save
\* under `if save_if_no_diff or (old_values != new_values)`; npositional
\* and keywords are the arguments the method passes to save / aio_save
update_body(self, new_data, save_if_no_diff, npositional, keywords) ==
    LET diff == update_object(self, _get_instance_data(new_data))
        old_values == diff.old_state
        new_values == diff.new_state
        saves == save_if_no_diff \/ (old_values # new_values)
        bound == ~MultipleValues(save_params, npositional, keywords)
        written == saves /\ bound /\ ~diff.raised
    IN  [new_data |-> new_data, save_if_no_diff |-> save_if_no_diff,
         before |-> self, entity |-> diff.obj,
         old_values |-> old_values, new_values |-> new_values,
         add |-> written, commit |-> written,
         raised |-> IF diff.raised THEN "BadRequest"
                    ELSE IF saves /\ ~bound THEN "TypeError"
                    ELSE NoneStr]

\* ActiveRecord.aio_update: await self.aio_save(session=session, commit=commit)
aio_update_call(email, new_data, save_if_no_diff) ==
    /\ call = NoCall
    /\ UserExists(email)
    /\ LET r == update_body(users[email], new_data, save_if_no_diff,
                            0, {"session", "commit"})
       IN  /\ users' = IF r.commit THEN [users EXCEPT ![email] = r.entity]
                       ELSE users
           /\ call' = [op |-> "aio_update"] @@ r
    /\ UNCHANGED <<now, ncodes, nsalts, mails, held, consumed, resp, inflight, session, scope>>

\* ActiveRecord.aio_update_with_diff: the same, returning the diff as well
aio_update_with_diff_call(email, new_data, save_if_no_diff) ==
    /\ call = NoCall
    /\ UserExists(email)
    /\ LET r == update_body(users[email], new_data, save_if_no_diff,
                            0, {"session", "commit"})
       IN  /\ users' = IF r.commit THEN [users EXCEPT ![email] = r.entity]
                       ELSE users
           /\ call' = [op |-> "aio_update_with_diff"] @@ r
    /\ UNCHANGED <<now, ncodes, nsalts, mails, held, consumed, resp, inflight, session, scope>>

\* update_object(obj, new_data) called on a loaded row with the payload as
\* it is (not through _get_instance_data); it does not touch the session
update_object_call(email, new_data) ==
    /\ call = NoCall
    /\ UserExists(email)
    /\ LET diff == update_object(users[email], new_data)
       IN  call' = [op |-> "update_object", new_data |-> new_data,
                    before |-> users[email], entity |-> diff.obj,
                    old_values |-> diff.old_state,
                    new_values |-> diff.new_state,
                    add |-> FALSE, commit |-> FALSE,
                    raised |-> IF diff.raised THEN "BadRequest" ELSE NoneStr]
    /\ UNCHANGED <<users, now, ncodes, nsalts, mails, held, consumed, resp,
                   inflight, session, scope>>

\* ActiveRecord.update_with_diff: self.save(commit, session=session)
update_with_diff_call(email, new_data, save_if_no_diff) ==
    /\ call = NoCall
    /\ UserExists(email)
    /\ LET r == update_body(users[email], new_data, save_if_no_diff,
                            1, {"session"})
       IN  /\ users' = IF r.commit THEN [users EXCEPT ![email] = r.entity]
                       ELSE users
           /\ call' = [op |-> "update_with_diff"] @@ r
    /\ UNCHANGED <<now, ncodes, nsalts, mails, held, consumed, resp, inflight, session, scope>>

\* ActiveRecord.update: self.save(commit, session=session)
update_call(email, new_data, save_if_no_diff) ==
    /\ call = NoCall
    /\ UserExists(email)
    /\ LET r == update_body(users[email], new_data, save_if_no_diff,
                            1, {"session"})
       IN  /\ users' = IF r.commit THEN [users EXCEPT ![email] = r.entity]
                       ELSE users
           /\ call' = [op |-> "update"] @@ r
    /\ UNCHANGED <<now, ncodes, nsalts, mails, held, consumed, resp, inflight, session, scope>>

\* the body shared by create and aio_create: cls(**_get_instance_data(
\* new_data)), then the save; npositional and keywords are the arguments
\* the method passes to save / aio_save
create_body(table, new_data, npositional, keywords) ==
    LET instance == aio_create(new_data, Cardinality(DOMAIN table) + 1)
        bound == ~MultipleValues(save_params, npositional, keywords)
        stored == bound /\ NotNullable(instance)
                        /\ instance.email \notin DOMAIN table
    IN  [new_data |-> new_data, add |-> bound, commit |-> stored,
         entity |-> instance,
         raised |-> IF ~bound THEN "TypeError"
                    ELSE IF ~stored THEN "IntegrityError"
                    ELSE NoneStr]

\* ActiveRecord.create: instance.save(commit, session=session)
create_call(new_data) ==
    /\ call = NoCall
    /\ Cardinality(DOMAIN users) < MaxRows
    /\ \E i \in 1..(Cardinality(DOMAIN users) + 1) :
           ValueOf(new_data, "email") = Email(<<ARLocals[i]>>, XCom)
    /\ LET r == create_body(users, new_data, 1, {"session"})
       IN  /\ users' = IF r.commit THEN users @@ (r.entity.email :> r.entity)
                       ELSE users
           /\ call' = [op |-> "create"] @@ r
    /\ UNCHANGED <<now, ncodes, nsalts, mails, held, consumed, resp, inflight, session, scope>>

\* ActiveRecord.aio_get_all(session, offset, limit, sort, ids)
aio_get_all_call(offset, limit, sort, ids) ==
    /\ call = NoCall
    /\ LET stmt == get_list_query(ids, sort)
           matching == Matching(users, stmt.where)
           args == [op |-> "aio_get_all", offset |-> offset, limit |-> limit,
                    sort |-> sort, ids |-> ids,
                    raised |-> stmt.raised, detail |-> stmt.detail]
       IN  IF stmt.raised # NoneStr
           THEN call' = args
           ELSE \E rows \in Orderings(matching, stmt.order_by) :
                    call' = args @@ [rows |-> rows] @@
                            PageableResponseDTO(Page(rows, offset, limit),
                                                Cardinality(matching))
    /\ UNCHANGED <<users, now, ncodes, nsalts, mails, held, consumed, resp,
                   inflight, session, scope>>

\* the caller has the result; the session takes the next call
Return ==
    /\ call # NoCall
    /\ call' = NoCall
    /\ UNCHANGED <<users, now, ncodes, nsalts, mails, held, consumed, resp,
                   inflight, session, scope>>

NextAR ==
    \/ Return
    \/ \E d \in CreatePayloads : aio_create_call(d)
    \/ \E e \in AREmails, d \in UpdatePayloads, b \in BOOLEAN :
           aio_update_call(e, d, b)
    \/ \E e \in AREmails, d \in UpdatePayloads, b \in BOOLEAN :
           aio_update_with_diff_call(e, d, b)
    \/ \E e \in AREmails, d \in UpdatePayloads, b \in BOOLEAN :
           update_with_diff_call(e, d, b)
    \/ \E e \in AREmails, d \in UpdatePayloads : update_object_call(e, d)
    \/ \E e \in AREmails, d \in UpdatePayloads, b \in BOOLEAN :
           update_call(e, d, b)
    \/ \E d \in CreatePayloads : create_call(d)
    \/ \E o \in Offsets, l \in Limits, t \in SortStrings, i \in IdLists :
           aio_get_all_call(o, l, t, i)

SpecAR == Init /\ [][NextAR]_vars

\* --------------------------------------- one Session, commit deferred
\* A caller passes commit=False to aio_create, aio_update and aio_delete
\* on one AsyncSession and commits the session afterwards.  AIOSessionLocal
\* is made with autoflush=False: Session.refresh then reloads a persistent
\* object from its row, dropping the attribute changes not flushed, and
\* refuses an instance that is not persistent (InvalidRequestError).
\* users is the committed table, which is what another session reads.

UnitCreatePayloads ==
    {<< <<"email", e>>, <<"password_hash", get_password_hash(PwA, 1)>> >> :
        e \in AREmails}
UnitUpdatePayloads == {<< <<"is_active", TRUE>> >>, << <<"is_active", FALSE>> >>}

\* server_default uuid_generate_v4(): a value no other row has; here the
\* place of the row's email in ARLocals
uuid_generate_v4(email) ==
    CHOOSE i \in 1..Len(ARLocals) : email = Email(<<ARLocals[i]>>, XCom)

\* session.flush as part of session.commit: DELETE the rows marked, INSERT
\* the instances added
flush(table, unit) ==
    LET added == {r.email : r \in unit.new}
        row(e) == CHOOSE r \in unit.new : r.email = e
    IN  [e \in (DOMAIN table \ unit.deleted) \cup added |->
            IF e \in added
            THEN [row(e) EXCEPT !.id = uuid_generate_v4(e)]
            ELSE table[e]]

\* the unit of work after session.commit
Flushed(unit) == [unit EXCEPT !.new = {}, !.deleted = {}]

\* ActiveRecord.aio_create(new_data, session, commit)
unit_aio_create(new_data, commit_) ==
    /\ call = NoCall
    /\ LET email == ValueOf(new_data, "email")
           instance == aio_create(new_data, 0)
           unit == [session EXCEPT !.new = @ \cup {instance},
                                   !.applied = @ @@ (email :> instance)]
       IN  \* no row and no instance of the session has the email
           /\ email \notin DOMAIN users \cup DOMAIN session.applied
           /\ IF commit_
              THEN /\ users' = flush(users, unit)
                   /\ session' = Flushed(unit)
                   /\ call' = [op |-> "aio_create", commit |-> TRUE,
                               email |-> email, raised |-> NoneStr]
              ELSE \* session.refresh(self) on a pending instance
                   /\ users' = users
                   /\ session' = unit
                   /\ call' = [op |-> "aio_create", commit |-> FALSE,
                               email |-> email,
                               raised |-> "InvalidRequestError"]
    /\ UNCHANGED <<now, ncodes, nsalts, mails, held, consumed, resp, inflight, scope>>

\* ActiveRecord.aio_update(new_data, session, commit) on a loaded row
unit_aio_update(email, new_data, commit_) ==
    /\ call = NoCall
    /\ email \in DOMAIN users \ session.deleted
    /\ LET self == users[email]
           unit == [session EXCEPT !.applied[email] =
                       update_object(@, _get_instance_data(new_data)).obj]
       IN  IF commit_
           THEN /\ users' = flush([users EXCEPT ![email] = aio_update(self, new_data)],
                                  unit)
                /\ session' = Flushed(unit)
                /\ call' = [op |-> "aio_update", commit |-> TRUE,
                            email |-> email, raised |-> NoneStr]
           ELSE \* session.add(self), then session.refresh(self): the
                \* attributes set by update_object are loaded again
                /\ users' = users
                /\ session' = unit
                /\ call' = [op |-> "aio_update", commit |-> FALSE,
                            email |-> email, raised |-> NoneStr]
    /\ UNCHANGED <<now, ncodes, nsalts, mails, held, consumed, resp, inflight, scope>>

\* ActiveRecord.aio_delete(session, commit) on a loaded row
unit_aio_delete(email, commit_) ==
    /\ call = NoCall
    /\ email \in DOMAIN users \ session.deleted
    /\ LET unit == [session EXCEPT
                       !.deleted = @ \cup {email},
                       !.applied = [e \in DOMAIN @ \ {email} |-> @[e]]]
       IN  IF commit_
           THEN /\ users' = flush(users, unit)
                /\ session' = Flushed(unit)
           ELSE /\ users' = users
                /\ session' = unit
    /\ call' = [op |-> "aio_delete", commit |-> commit_, email |-> email,
                raised |-> NoneStr]
    /\ UNCHANGED <<now, ncodes, nsalts, mails, held, consumed, resp, inflight, scope>>

\* the caller's own session.commit() after the deferred calls
session_commit ==
    /\ call = NoCall
    /\ users' = flush(users, session)
    /\ session' = Flushed(session)
    /\ call' = [op |-> "commit", commit |-> TRUE, email |-> NoEmail,
                raised |-> NoneStr]
    /\ UNCHANGED <<now, ncodes, nsalts, mails, held, consumed, resp, inflight, scope>>

NextUnit ==
    \/ Return
    \/ \E d \in UnitCreatePayloads, c \in BOOLEAN : unit_aio_create(d, c)
    \/ \E e \in AREmails, d \in UnitUpdatePayloads, c \in BOOLEAN :
           unit_aio_update(e, d, c)
    \/ \E e \in AREmails, c \in BOOLEAN : unit_aio_delete(e, c)
    \/ session_commit

SpecUnit == Init /\ [][NextUnit]_vars

\* ------------------------------------------- the session dependencies
\* get_db and get_aio_db are generator dependencies: FastAPI runs one up to
\* its yield before the endpoint, and resumes it (or throws the endpoint's
\* exception into it) after the endpoint.

Dependencies == {"get_db", "get_aio_db"}
\* how an endpoint ends: it returns, raises an HTTPException (a domain
\* failure), or raises something else
EndpointOutcomes == {NoneStr, "HTTPException", "Exception"}

\* the dependency up to its yield.  made: SessionLocal() / AIOSessionLocal()
\* returned a Session.  When it raised instead, get_db runs `finally:
\* db.close()` with db unbound, and get_aio_db has no context to leave.
dep_enter(p, dep, made) ==
    /\ scope.of[p].pc = "idle"
    /\ scope.made < MaxSessions
    /\ scope' =
          IF made
          THEN [made |-> scope.made + 1,
                of |-> [scope.of EXCEPT ![p] =
                          [dep |-> dep, pc |-> "yielded",
                           db |-> scope.made + 1, opened |-> 1,
                           released |-> 0, raised |-> NoneStr]]]
          ELSE [scope EXCEPT !.of[p] =
                          [dep |-> dep, pc |-> "done", db |-> 0,
                           opened |-> 0, released |-> 0,
                           raised |-> IF dep = "get_db"
                                      THEN "UnboundLocalError"
                                      ELSE "Exception"]]
    /\ UNCHANGED <<users, now, ncodes, nsalts, mails, held, consumed, resp,
                   inflight, call, session>>

\* the endpoint, with the Session the dependency yielded
endpoint(p, outcome) ==
    /\ scope.of[p].pc = "yielded"
    /\ scope' = [scope EXCEPT !.of[p].pc = "ended", !.of[p].raised = outcome]
    /\ UNCHANGED <<users, now, ncodes, nsalts, mails, held, consumed, resp,
                   inflight, call, session>>

\* the dependency after its yield: `finally: db.close()` in get_db, the
\* exit of `async with AIOSessionLocal() as session` in get_aio_db; an
\* exception of the endpoint goes on after it
dep_exit(p) ==
    /\ scope.of[p].pc = "ended"
    /\ scope' = [scope EXCEPT !.of[p].pc = "done",
                              !.of[p].released = @ + 1]
    /\ UNCHANGED <<users, now, ncodes, nsalts, mails, held, consumed, resp,
                   inflight, call, session>>

\* the response is sent; the slot takes the next request
next_request(p) ==
    /\ scope.of[p].pc = "done"
    /\ scope' = [scope EXCEPT !.of[p] = NoRequest]
    /\ UNCHANGED <<users, now, ncodes, nsalts, mails, held, consumed, resp,
                   inflight, call, session>>

NextScope ==
    \/ \E p \in Procs, d \in Dependencies, m \in BOOLEAN : dep_enter(p, d, m)
    \/ \E p \in Procs, o \in EndpointOutcomes : endpoint(p, o)
    \/ \E p \in Procs : dep_exit(p)
    \/ \E p \in Procs : next_request(p)

SpecScope == Init /\ [][NextScope]_vars

\* ------------------------------------- a page read while rows change
\* aio_get_all awaits twice on its session: session.scalars(stmt) for the
\* items, then session.scalars(count_stmt) for the total.  The engine is
\* created without an isolation level (app/db/session.py), so on PostgreSQL
\* every statement of the transaction reads the rows committed when the
\* statement starts.  Other requests commit on sessions of their own
\* between the two statements.

\* sort strings of the paged reads: none, one that orders, one that raises
PageSorts == {<< >>, tIdDesc, tUnknown}

\* another request: aio_create with commit=True on its own session
committed_create(email) ==
    /\ email \notin DOMAIN users
    /\ users' = users @@ (email :>
           aio_create(<< <<"email", email>>,
                         <<"password_hash", get_password_hash(PwA, 1)>> >>,
                      uuid_generate_v4(email)))
    /\ UNCHANGED <<now, ncodes, nsalts, mails, held, consumed, resp,
                   inflight, call, session, scope>>

\* another request: aio_delete with commit=True on its own session
committed_delete(email) ==
    /\ email \in DOMAIN users
    /\ users' = [e \in DOMAIN users \ {email} |-> users[e]]
    /\ UNCHANGED <<now, ncodes, nsalts, mails, held, consumed, resp,
                   inflight, call, session, scope>>

\* aio_get_all up to the second await: get_list_query, then
\* resp_items = (await session.scalars(stmt.offset(offset).limit(limit))).all()
aio_get_all_items(offset, limit, sort, ids) ==
    /\ call = NoCall
    /\ LET stmt == get_list_query(ids, sort)
           matching == Matching(users, stmt.where)
           args == [offset |-> offset, limit |-> limit, sort |-> sort,
                    ids |-> ids, raised |-> stmt.raised,
                    detail |-> stmt.detail]
       IN  IF stmt.raised # NoneStr
           THEN call' = args @@ [op |-> "aio_get_all"]
           ELSE \E rows \in Orderings(matching, stmt.order_by) :
                    call' = args @@
                        [op |-> "aio_get_all: count_stmt", rows |-> rows,
                         resp_items |-> Page(rows, offset, limit)]
    /\ UNCHANGED <<users, now, ncodes, nsalts, mails, held, consumed, resp,
                   inflight, session, scope>>

\* the rest of aio_get_all: total_items = (await
\* session.scalars(count_stmt)).one() over the rows committed by now, then
\* PageableResponseDTO(items=resp_items, total_items=total_items)
aio_get_all_count ==
    /\ call.op = "aio_get_all: count_stmt"
    /\ LET stmt == get_list_query(call.ids, call.sort)
           total_items == Cardinality(Matching(users, stmt.where))
       IN  call' = [offset |-> call.offset, limit |-> call.limit,
                    sort |-> call.sort, ids |-> call.ids,
                    raised |-> NoneStr, detail |-> "",
                    op |-> "aio_get_all", rows |-> call.rows] @@
                   PageableResponseDTO(call.resp_items, total_items)
    /\ UNCHANGED <<users, now, ncodes, nsalts, mails, held, consumed, resp,
                   inflight, session, scope>>

\* the caller has the page or the exception
page_return ==
    /\ call.op = "aio_get_all"
    /\ Return

NextPage ==
    \/ \E e \in AREmails : committed_create(e)
    \/ \E e \in AREmails : committed_delete(e)
    \/ \E o \in Offsets, l \in Limits, t \in PageSorts, i \in IdLists :
           aio_get_all_items(o, l, t, i)
    \/ aio_get_all_count
    \/ page_return

SpecPage == Init /\ [][NextPage]_vars

\* ======================================================== properties
Outcome(r) == [status |-> r.status, kind |-> r.kind, detail |-> r.detail]

CodeOps == {"confirm", "check_reset_code", "reset_password"}

\* the validity rule of the data model, stated on the stored pair
PairValid(u, c, t) ==
    /\ u.reset_code_hash # NoneHash
    /\ u.reset_code_expiration # NoneTime
    /\ u.reset_code_expiration > t
    /\ u.reset_code_hash.secret = c

CodeValid(e, c) == UserExists(e) /\ PairValid(users[e], c, now)

\* the codes mailed to e, and those followed by a later one
IssuedTo(e) == {m.code : m \in {x \in mails : x.to = e}}
Superseded(e, c) == c \in IssuedTo(e) /\ \E d \in IssuedTo(e) : d > c

\* the step answers a request of the kind (a Tick leaves resp alone)
IsConfirm == resp'.op = "confirm" /\ now' = now
IsCheck == resp'.op = "check_reset_code" /\ now' = now
IsReset == resp'.op = "reset_password" /\ now' = now
\* ... with a request body that passed PasswordResetDTO validation
IsValidatedReset == IsReset /\ password_requirements(resp'.password)
IsLogin == resp'.op = "login" /\ now' = now
IsForgot == resp'.op = "forgot_password" /\ now' = now

C1_AtMostOneValid ==
    \A e \in DOMAIN users :
        /\ Cardinality({c \in PresentedCodes : PairValid(users[e], c, now)}) <= 1
        /\ \A c \in PresentedCodes : Superseded(e, c) => ~PairValid(users[e], c, now)

C1_SupersededRejected ==
    Superseded(resp'.email, resp'.code) =>
        /\ IsConfirm => Outcome(resp') = InvalidCode /\ users' = users
        /\ IsCheck => Outcome(resp') = InvalidCode
        /\ IsReset => resp'.status # 200 /\ users' = users
        /\ IsValidatedReset => Outcome(resp') = InvalidCode

\* C1: at most one plaintext code is valid for a user, and a code issued
\* before the latest one for that user is rejected by confirm,
\* check_reset_code and reset_password.
Thm_C1 == [] C1_AtMostOneValid /\ [][C1_SupersededRejected]_vars

\* a superseded code was presented and refused while the latest is valid
Wit_C1 ==
    /\ resp.op \in CodeOps
    /\ Superseded(resp.email, resp.code)
    /\ Outcome(resp) = InvalidCode
    /\ \E d \in IssuedTo(resp.email) : d > resp.code /\ CodeValid(resp.email, d)

Elapsed(e) ==
    /\ UserExists(e)
    /\ users[e].reset_code_expiration # NoneTime
    /\ users[e].reset_code_expiration <= now

C2_Step ==
    (IsConfirm \/ IsCheck \/ IsValidatedReset) =>
        /\ Elapsed(resp'.email) => Outcome(resp') = InvalidCode /\ users' = users
        /\ Outcome(resp') # InvalidCode <=> CodeValid(resp'.email, resp'.code)

\* C2: in confirm, check_reset_code and reset_password a code presented at or
\* after reset_code_expiration fails with AuthenticationFailed and changes no
\* user field, even when it matches reset_code_hash; the code check passes
\* iff the hash is set, the expiration is in the future and the code
\* verifies against the hash.
Thm_C2 == [][C2_Step]_vars

\* the matching code was presented after its expiration and refused
Wit_C2 ==
    /\ resp.op \in CodeOps
    /\ Outcome(resp) = InvalidCode
    /\ Elapsed(resp.email)
    /\ users[resp.email].reset_code_hash.secret = resp.code

C3_Step ==
    /\ (<<resp'.email, resp'.code>> \in consumed
            /\ (IsConfirm \/ IsCheck \/ IsValidatedReset)) =>
           resp'.kind = "AuthenticationFailed"
    /\ \A e \in DOMAIN users :
           \* code_pending is entered only by an issuance
           (users[e].reset_code_hash = NoneHash
                /\ users'[e].reset_code_hash # NoneHash) => mails' # mails

\* C3: with requests run one after another, a code with which a confirm or a
\* reset_password succeeded makes every later confirm, check_reset_code and
\* reset_password presenting it fail with AuthenticationFailed, and a user
\* without a pending code gets one only by a new issuance.
Thm_C3 == [][C3_Step]_vars

\* a used-up code was presented again and refused
Wit_C3 ==
    /\ resp.op \in CodeOps
    /\ <<resp.email, resp.code>> \in consumed
    /\ resp.kind = "AuthenticationFailed"

C4_Step ==
    IsConfirm =>
        LET e == resp'.email
            c == resp'.code
        IN  /\ (UserExists(e) /\ ~users[e].is_active
                    /\ PairValid(users[e], c, now)) =>
                   /\ resp'.status = 200
                   /\ users' = [users EXCEPT ![e] =
                          [users[e] EXCEPT !.is_active = TRUE,
                                           !.confirmed_at = now,
                                           !.reset_code_hash = NoneHash,
                                           !.reset_code_expiration = NoneTime]]
            /\ (~UserExists(e) \/ users[e].reset_code_hash.secret # c) =>
                   /\ Outcome(resp') = InvalidCode
                   /\ users' = users

\* C4: confirm of an unconfirmed user with the valid pending code sets
\* is_active, sets confirmed_at to now and clears the reset-code pair; with a
\* wrong code or an unknown email it fails with AuthenticationFailed
\* 'Invalid or expired reset code' and changes nothing, so the user stays
\* inactive and the pending code stays valid.
Thm_C4 == [][C4_Step]_vars

\* a confirm has just activated the user
Wit_C4 ==
    /\ resp.op = "confirm"
    /\ resp.status = 200
    /\ UserExists(resp.email)
    /\ users[resp.email].is_active
    /\ users[resp.email].confirmed_at # NoneTime
    /\ users[resp.email].reset_code_hash = NoneHash
    /\ users[resp.email].reset_code_expiration = NoneTime

C5_OriginalStep ==
    (IsConfirm /\ UserExists(resp'.email) /\ users[resp'.email].is_active) =>
        Outcome(resp') = AlreadyActivated

\* C5 as stated: every confirm request for a user that is already active,
\* the second confirm with the used code included, fails with 'User is
\* already activated'.
C5_Original == [][C5_OriginalStep]_vars

C5_Step ==
    /\ (IsConfirm /\ UserExists(resp'.email) /\ users[resp'.email].is_active) =>
           /\ users' = users
           /\ Outcome(resp') = IF CodeValid(resp'.email, resp'.code)
                               THEN AlreadyActivated
                               ELSE InvalidCode
    /\ (IsConfirm /\ <<resp'.email, resp'.code>> \in consumed) =>
           Outcome(resp') = InvalidCode

\* C5: a confirm request for an active user fails with 'User is already
\* activated' exactly when the presented code is valid for that user, and
\* with 'Invalid or expired reset code' otherwise; a second confirm with the
\* code the first one used fails with 'Invalid or expired reset code'.
Thm_C5 == [][C5_Step]_vars

\* an active user presented a valid code to confirm
Wit_C5 ==
    /\ resp.op = "confirm"
    /\ Outcome(resp) = AlreadyActivated
    /\ UserExists(resp.email)
    /\ users[resp.email].is_active

C6_Step ==
    IsLogin =>
        LET e == resp'.email
            granted == /\ UserExists(e)
                       /\ users[e].confirmed_at # NoneTime
                       /\ users[e].password_hash.secret = resp'.password
        IN  /\ granted <=> resp'.status = 200
            /\ granted => /\ resp'.token_type = "bearer"
                          /\ resp'.access_token.sub = e
                          /\ resp'.access_token.sig = "good"
            /\ ~granted => /\ Outcome(resp') = AuthenticationFailedDefault
                           /\ resp'.access_token = NoToken

\* C6: login returns a bearer token iff a user with the email exists, its
\* confirmed_at is set and the password verifies against password_hash;
\* otherwise it fails with AuthenticationFailed.
Thm_C6 == [][C6_Step]_vars

\* a login with the right password was refused before confirmation
Wit_C6 ==
    /\ resp.op = "login"
    /\ Outcome(resp) = AuthenticationFailedDefault
    /\ UserExists(resp.email)
    /\ users[resp.email].confirmed_at = NoneTime
    /\ users[resp.email].password_hash.secret = resp.password

\* what a caller sees of a response
Body(r) ==
    [status |-> r.status, kind |-> r.kind, detail |-> r.detail,
     access_token |-> r.access_token, token_type |-> r.token_type,
     user |-> r.user]

FailureBody(outcome) ==
    [status |-> outcome.status, kind |-> outcome.kind, detail |-> outcome.detail,
     access_token |-> NoToken, token_type |-> "", user |-> NoDTO]

C7_Step ==
    /\ (IsLogin /\ resp'.status # 200) =>
           Body(resp') = FailureBody(AuthenticationFailedDefault)
    /\ ((IsConfirm \/ IsCheck \/ IsValidatedReset)
            /\ ~CodeValid(resp'.email, resp'.code)) =>
           Body(resp') = FailureBody(InvalidCode)

\* C7: every failing login has one and the same response, and every confirm,
\* check_reset_code and reset_password whose code is not valid (unknown
\* email, no pending code, expired code, wrong code) has one and the same
\* response, so runs that differ in whether the account exists answer alike.
Thm_C7 == [][C7_Step]_vars

\* a code request for an email without user was refused
Wit_C7 ==
    /\ resp.op \in CodeOps
    /\ ~UserExists(resp.email)
    /\ Body(resp) = FailureBody(InvalidCode)
    /\ \E e \in DOMAIN users : users[e].reset_code_hash # NoneHash

C8_Step ==
    IsForgot =>
        /\ Body(resp') = FailureBody(Ok)
        /\ ~UserExists(resp'.email) =>
               /\ users' = users
               /\ mails' = mails

\* C8: forgot_password answers with the same empty success whether or not
\* the email has a user; without a user no row is created or changed and no
\* mail is scheduled.
Thm_C8 == [][C8_Step]_vars

\* forgot_password for an email without user, beside an existing user
Wit_C8 ==
    /\ resp.op = "forgot_password"
    /\ ~UserExists(resp.email)
    /\ resp.status = 200
    /\ DOMAIN users # {}

C9_Step ==
    LET e == resp'.email
        c == resp'.code
        same == UserExists(e) /\ users[e].password_hash.secret = resp'.password
    IN  /\ IsReset =>
               /\ Outcome(resp') = MayNotBeIdentical <=> (CodeValid(e, c) /\ same)
               /\ Outcome(resp') = MayNotBeIdentical =>
                      /\ users' = users
                      /\ resp'.access_token = NoToken
                      /\ PairValid(users'[e], c, now')
        /\ (IsValidatedReset /\ ~CodeValid(e, c)) => Outcome(resp') = InvalidCode

\* C9: reset_password fails with UnprocessableInput 'may not be identical'
\* iff the code is valid and the new password verifies against the current
\* password_hash; then nothing is changed, no token is issued and the code
\* stays valid.  With a code that is not valid the failure is
\* AuthenticationFailed whether or not the password equals the current one.
Thm_C9 == [][C9_Step]_vars

\* the current password was presented with a valid code
Wit_C9 ==
    /\ resp.op = "reset_password"
    /\ Outcome(resp) = MayNotBeIdentical
    /\ CodeValid(resp.email, resp.code)

C10_Step ==
    LET e == resp'.email
        c == resp'.code
        p == resp'.password
    IN  /\ (IsReset /\ resp'.status = 200) =>
               /\ CodeValid(e, c)
               /\ users[e].password_hash.secret # p
               /\ users'[e].password_hash.secret = p
               /\ users'[e].password_hash # users[e].password_hash
               /\ users' = [users EXCEPT ![e] =
                      [users[e] EXCEPT !.password_hash = users'[e].password_hash,
                                       !.reset_code_hash = NoneHash,
                                       !.reset_code_expiration = NoneTime]]
               /\ resp'.token_type = "bearer"
               /\ resp'.access_token.sub = e
               /\ resp'.access_token.sig = "good"
        /\ (IsValidatedReset /\ CodeValid(e, c)
                /\ users[e].password_hash.secret # p) => resp'.status = 200
        /\ \* the login that follows a successful reset
           (resp.op = "reset_password" /\ resp.status = 200
                /\ IsLogin /\ e = resp.email) =>
               IF p = resp.password
               THEN users[e].confirmed_at # NoneTime => resp'.status = 200
               ELSE Outcome(resp') = AuthenticationFailedDefault

\* C10: a reset_password with a valid code and a password other than the
\* current one replaces password_hash, clears the reset-code pair and
\* returns a bearer token; the login that follows fails with any other
\* password and succeeds with the new one when the user is confirmed.
Thm_C10 == [][C10_Step]_vars

\* a confirmed user has just reset the password
Wit_C10 ==
    /\ resp.op = "reset_password"
    /\ resp.status = 200
    /\ resp.token_type = "bearer"
    /\ users[resp.email].confirmed_at # NoneTime
    /\ users[resp.email].password_hash.secret = resp.password
    /\ users[resp.email].reset_code_hash = NoneHash

\* a step that answers a check_reset_code request (a Tick leaves resp alone)
CheckStep == resp'.op = "check_reset_code" /\ now' = now

C11_Step ==
    LET e == resp'.email
        c == resp'.code
    IN  /\ CheckStep =>
               /\ users' = users
               /\ mails' = mails
               /\ consumed' = consumed
        /\ IsCheck =>
               /\ resp'.status = 200 <=> CodeValid(e, c)
               /\ resp'.status # 200 => Outcome(resp') = InvalidCode
               \* the test confirm_user and reset_password make on the state
               \* the check leaves behind
               /\ resp'.status = 200 =>
                      /\ e \in DOMAIN users'
                      /\ verify_reset_code(users'[e], c, now')
        /\ (IsConfirm \/ IsValidatedReset) =>
               (Outcome(resp') # InvalidCode <=> CodeValid(e, c))

\* C11: check_reset_code changes no field of any user, schedules no mail and
\* uses up no code, whether it succeeds or fails; it succeeds exactly when
\* the code is valid, which is exactly when a confirm or reset_password at
\* the same instant passes its code verification (does not fail with
\* 'Invalid or expired reset code'), and after a successful check the code
\* still passes the verification of confirm and reset_password.
Thm_C11 == [][C11_Step]_vars

\* a check has just accepted a code, and the code is still pending
Wit_C11 ==
    /\ resp.op = "check_reset_code"
    /\ resp.status = 200
    /\ CodeValid(resp.email, resp.code)
    /\ <<resp.email, resp.code>> \notin consumed

\* the reset-code pair of a row: both columns set or both NULL
PairWhole(u) ==
    (u.reset_code_hash = NoneHash) <=> (u.reset_code_expiration = NoneTime)

\* C12 as stated: in every committed state, with requests interleaved
\* (SpecConc), reset_code_hash and reset_code_expiration of every user are
\* both present or both absent.
C12_Original == \A e \in DOMAIN users : PairWhole(users[e])

C13_OriginalStep ==
    \A e \in DOMAIN users :
        /\ users[e].confirmed_at # NoneTime =>
               users'[e].confirmed_at = users[e].confirmed_at
        /\ users[e].is_active => users'[e].is_active

\* C13 as stated: over every interleaving of requests (SpecConc), once
\* confirmed_at of a user is set no later write changes it, and is_active
\* never goes from true back to false.
C13_Original == [][C13_OriginalStep]_vars

\* two addresses that differ at most in letter case
SameIgnoringCase(e1, e2) ==
    lower(e1.local) = lower(e2.local) /\ lower(e1.domain) = lower(e2.domain)

C14_Unique ==
    \A e1, e2 \in DOMAIN users : SameIgnoringCase(e1, e2) => e1 = e2

C14_LookupStep ==
    \A u \in DOMAIN users :
        SameIgnoringCase(u, resp'.email) =>
            /\ (IsLogin /\ users[u].confirmed_at # NoneTime
                    /\ users[u].password_hash.secret = resp'.password) =>
                   resp'.status = 200
            /\ (IsCheck /\ PairValid(users[u], resp'.code, now)) =>
                   resp'.status = 200
            /\ ((IsConfirm \/ IsReset) /\ PairValid(users[u], resp'.code, now)) =>
                   Outcome(resp') # InvalidCode

\* C14 as stated: no two users have emails that are equal or differ only in
\* letter case, and login, confirm, check_reset_code and reset_password find
\* the user whose stored email differs from the presented one only in
\* letter case.
C14_Original == [] C14_Unique /\ [][C14_LookupStep]_vars

IsRegister == resp'.op = "register" /\ now' = now

C15_Step ==
    LET e == resp'.email
        p == resp'.password
    IN  /\ (IsRegister /\ resp'.status = 200) =>
               /\ password_requirements(p)
               /\ e \notin DOMAIN users
               /\ DOMAIN users' = DOMAIN users \cup {e}
               /\ \A o \in DOMAIN users : users'[o] = users[o]
               /\ users'[e].email = e
               /\ users'[e].is_active = FALSE
               /\ users'[e].confirmed_at = NoneTime
               /\ users'[e].password_hash # NonePwHash
               /\ verify_password(p, users'[e].password_hash)
               /\ users'[e].reset_code_hash # NoneHash
               /\ users'[e].reset_code_expiration = now + RESET_TOKEN_EXPIRE_MINUTES
               \* one confirmation mail, carrying the code of the stored hash
               /\ \E m \in mails' \ mails :
                      /\ mails' = mails \cup {m}
                      /\ m.to = e
                      /\ m.link = "confirm"
                      /\ verify_password(m.code, users'[e].reset_code_hash)
               \* the body is the UserDTO of the new row
               /\ DOMAIN resp'.user = {"id", "email", "is_active", "confirmed_at",
                                       "last_login_at", "last_login_ip"}
               /\ \A k \in DOMAIN resp'.user : resp'.user[k] = users'[e][k]
        /\ (IsRegister /\ ~password_requirements(p)) =>
               /\ Outcome(resp') = RequestValidationError
               /\ users' = users
               /\ mails' = mails
        /\ (IsRegister /\ resp'.status # 200) =>
               /\ users' = users
               /\ mails' = mails

\* C15: a successful register adds exactly one user, with the given email,
\* is_active false, confirmed_at unset, password_hash a hash the given
\* password verifies against, and a reset-code pair whose expiration is now
\* plus RESET_TOKEN_EXPIRE_MINUTES; it schedules one confirmation mail and
\* returns the UserDTO fields of the row, which hold no password, password
\* hash or code hash.  A register whose password fails the complexity rule,
\* like every register that fails, creates no user and schedules no mail.
Thm_C15 == [][C15_Step]_vars

\* a register has just created an inactive user with a pending code
Wit_C15 ==
    /\ resp.op = "register"
    /\ resp.status = 200
    /\ UserExists(resp.email)
    /\ ~users[resp.email].is_active
    /\ users[resp.email].reset_code_expiration = now + RESET_TOKEN_EXPIRE_MINUTES
    /\ resp.user.email = resp.email

\* the keys of the payload that are fields of the entity, and those among
\* them whose value differs from the entity's before the call
FieldKeys(c) == Keys(c.new_data) \cap DOMAIN c.before
Differing(c) == {k \in FieldKeys(c) : c.before[k] # ValueOf(c.new_data, k)}

\* C16: aio_update_with_diff returns old_values and new_values over the same
\* keys, exactly the keys of the payload whose value differs from the
\* entity's value before the call, old_values holding the values before and
\* new_values the values of the payload; after the call the entity holds
\* the payload's value under every key of the payload that is one of its
\* fields, its other fields are as before, and the stored row is the entity.
Thm_C16 ==
    (call.op = "aio_update_with_diff" /\ call.raised = NoneStr) =>
        /\ DOMAIN call.old_values = Differing(call)
        /\ DOMAIN call.new_values = Differing(call)
        /\ \A k \in Differing(call) :
               /\ call.old_values[k] = call.before[k]
               /\ call.new_values[k] = ValueOf(call.new_data, k)
        /\ DOMAIN call.entity = DOMAIN call.before
        /\ \A k \in FieldKeys(call) :
               call.entity[k] = ValueOf(call.new_data, k)
        /\ \A k \in DOMAIN call.before \ FieldKeys(call) :
               call.entity[k] = call.before[k]
        /\ users[call.entity.email] = call.entity

\* a payload of two fields, one equal to the stored value and one not, has
\* been applied
Wit_C16 ==
    /\ call.op = "aio_update_with_diff"
    /\ call.raised = NoneStr
    /\ Cardinality(FieldKeys(call)) = 2
    /\ DOMAIN call.new_values = {"is_active"}
    /\ call.new_values["is_active"] = TRUE
    /\ call.old_values["is_active"] = FALSE
    /\ users[call.entity.email].is_active

UpdateOps == {"aio_update", "aio_update_with_diff", "update_with_diff"}

\* session.add and session.commit have both run
Wrote(c) == c.add /\ c.commit

\* C17 as stated: an update writes to the store exactly when save_if_no_diff
\* is true or the diff is not empty; with save_if_no_diff false and a
\* payload of values the entity already has there is no add and no commit
\* and the diff maps are empty.
C17_Original ==
    call.op \in UpdateOps =>
        /\ Wrote(call) <=> (call.save_if_no_diff \/ call.new_values # << >>)
        /\ (~call.save_if_no_diff /\ Differing(call) = {}) =>
               /\ ~call.add
               /\ ~call.commit
               /\ call.old_values = << >>
               /\ call.new_values = << >>

\* C18 as stated: a create or an update whose payload has a key that is no
\* field of the entity fails with BadRequest and writes nothing.
C18_Original ==
    (call.op \in UpdateOps \cup {"aio_create"}
        /\ ~(Keys(call.new_data) \subseteq UserFields)) =>
            /\ call.raised = "BadRequest"
            /\ ~call.add
            /\ ~call.commit

\* the tokens of a sort string, and the field and the direction of a token
Tokens(sort) == SelectSeq(split(sort, ","), LAMBDA t : t # << >>)
Field(token) == split(token, ":")[1]
HasDirection(token) == Len(split(token, ":")) > 1
Direction(token) == split(token, ":")[2]

KnownField(name) == \E k \in DOMAIN orm_attrs : orm_attrs[k] = name
Ascending(token) ==
    ~HasDirection(token) \/ lower(Direction(token)) = <<"a", "s", "c">>
Descending(token) ==
    HasDirection(token) /\ lower(Direction(token)) = <<"d", "e", "s", "c">>
Refused(token) ==
    ~KnownField(Field(token)) \/ ~(Ascending(token) \/ Descending(token))

\* the value of a row in the field of a token
TokenValue(row, token) == SortValue(row, getattr(Field(token)))

\* a may come before b: at the first token in whose field they differ, a
\* has the smaller value, or the larger one if the token says desc
InSortOrder(a, b, tokens) ==
    \A t \in 1..Len(tokens) :
        (/\ \A u \in 1..(t - 1) :
                TokenValue(a, tokens[u]) = TokenValue(b, tokens[u])
         /\ TokenValue(a, tokens[t]) # TokenValue(b, tokens[t])) =>
            IF Descending(tokens[t])
            THEN TokenValue(a, tokens[t]) > TokenValue(b, tokens[t])
            ELSE TokenValue(a, tokens[t]) < TokenValue(b, tokens[t])

\* the stored rows the id list of a call selects
Filtered(c) == {users[e] : e \in {x \in DOMAIN users :
                                      c.ids = {} \/ users[x].id \in c.ids}}

\* C19: the page aio_get_all returns has num_items equal to the length of
\* items; total_items is the number of stored rows the filter selects,
\* whatever offset and limit are; items are the rows at the positions
\* offset+1 .. offset+num_items of the filtered rows in sort order; and
\* num_items = min(limit, max(0, total_items - offset)).
Thm_C19 ==
    (call.op = "aio_get_all" /\ call.raised = NoneStr) =>
        LET total == Cardinality(Filtered(call))
            rest == IF total > call.offset THEN total - call.offset ELSE 0
        IN  /\ call.num_items = Len(call.items)
            /\ call.total_items = total
            /\ call.num_items = IF call.limit < rest THEN call.limit ELSE rest
            /\ Len(call.rows) = total
            /\ {call.rows[i] : i \in 1..total} = Filtered(call)
            /\ \A i, j \in 1..total :
                   i < j => InSortOrder(call.rows[i], call.rows[j],
                                        Tokens(call.sort))
            /\ \A i \in 1..call.num_items :
                   call.items[i] = call.rows[call.offset + i]

\* the second of three rows has been returned as a page of one
Wit_C19 ==
    /\ call.op = "aio_get_all"
    /\ call.raised = NoneStr
    /\ call.offset = 1
    /\ call.limit = 1
    /\ call.total_items = 3
    /\ call.num_items = 1
    /\ call.items = <<call.rows[2]>>

\* C20: aio_get_all raises BadRequest exactly when some token of the sort
\* string, empty tokens left out, names no field of the entity or has a
\* direction, possibly empty, that is neither asc nor desc in any letter
\* case; otherwise the rows come ordered by the field of the first token,
\* ascending unless the token says desc, and rows equal in it by the later
\* tokens in turn.
Thm_C20 ==
    call.op = "aio_get_all" =>
        LET tokens == Tokens(call.sort)
        IN  /\ call.raised = "BadRequest" <=>
                   \E t \in 1..Len(tokens) : Refused(tokens[t])
            /\ call.raised # "BadRequest" =>
                   /\ call.raised = NoneStr
                   /\ \A i, j \in 1..Len(call.rows) :
                          i < j => InSortOrder(call.rows[i], call.rows[j], tokens)

\* three rows have come back under is_active:DESC,id:desc: the active row,
\* then the two inactive ones, the later id first
Wit_C20 ==
    /\ call.op = "aio_get_all"
    /\ call.sort = tActiveDesc \o <<",">> \o tIdDesc
    /\ call.raised = NoneStr
    /\ Len(call.rows) = 3
    /\ call.rows[1].is_active
    /\ ~call.rows[2].is_active
    /\ ~call.rows[3].is_active
    /\ call.rows[2].id > call.rows[3].id

\* two tables with the same rows, the generated ids apart
SameRows(t1, t2) ==
    /\ DOMAIN t1 = DOMAIN t2
    /\ \A e \in DOMAIN t1 : [t1[e] EXCEPT !.id = 0] = [t2[e] EXCEPT !.id = 0]

C21_OriginalStep ==
    (call = NoCall /\ call' # NoCall) =>
        IF call'.commit
        THEN SameRows(users', session'.applied)
        ELSE users' = users

\* C21 as stated: a create, update or delete with commit at its default
\* leaves the committed table, which other sessions read, with the change
\* in it; a call with commit=False leaves the committed table as it was;
\* and after the caller's commit the committed table holds every change
\* the caller made on the session, none lost or reverted.
C21_Original == [][C21_OriginalStep]_vars

\* the requests that hold a Session
Holding == {p \in Procs : scope.of[p].pc \in {"yielded", "ended"}}

\* C22 as stated: no two requests share a session, and when a request is
\* over, whether its endpoint returned, raised a domain failure or raised
\* anything else, or the session could not be opened, its session was
\* opened exactly once and released exactly once.
C22_Original ==
    /\ \A p, q \in Holding : p # q => scope.of[p].db # scope.of[q].db
    /\ \A p \in Procs :
          scope.of[p].pc = "done" =>
              scope.of[p].opened = 1 /\ scope.of[p].released = 1

\* the bcrypt computations among the calls of a request
HashCount(calls) ==
    Cardinality({i \in 1..Len(calls) :
                    calls[i] \in {"hash", "verify", "dummy_verify"}})

\* the request of this step is `op`, and its handler ran (the body passed
\* the validation of its DTO)
IsHandled(op) ==
    /\ resp'.op = op
    /\ now' = now
    /\ resp'.kind # "RequestValidationError"

C23_Step ==
    /\ \A op \in {"login", "confirm", "check_reset_code", "reset_password"} :
          (IsHandled(op) /\ ~UserExists(resp'.email)) =>
              /\ resp'.status = 401
              /\ resp'.pwd # << >>
              /\ resp'.pwd[Len(resp'.pwd)] = "dummy_verify"
              /\ HashCount(resp'.pwd) = 1
    /\ IsHandled("forgot_password") =>
          /\ resp'.pwd[1] = "hash"
          /\ resp'.pwd[2] = "get_by_email"
          /\ HashCount(resp'.pwd) = 1

\* C23: in login, confirm, check_reset_code and reset_password a request
\* that fails because no user has the email makes one dummy hash
\* computation, and nothing else that hashes, before the failure is
\* raised; forgot_password generates its code (one hash) before it looks
\* the user up, whether the user exists or not.
Thm_C23 == [][C23_Step]_vars

\* a confirm for an email no user has was answered, after its dummy
\* verification
Wit_C23 ==
    /\ resp.op = "confirm"
    /\ resp.email \notin DOMAIN users
    /\ resp.status = 401
    /\ resp.pwd = <<"get_by_email", "dummy_verify">>

\* the bcrypt computations of a request that fails for an unknown email
NotFoundHashes == HashCount(<<"get_by_email">> \o dummy_verify)

C28_OriginalStep ==
    /\ \A op \in {"confirm", "check_reset_code", "reset_password"} :
          (IsHandled(op) /\ resp'.detail = InvalidCode.detail) =>
              HashCount(resp'.pwd) = NotFoundHashes
    /\ (IsHandled("login") /\ resp'.status # 200) =>
              HashCount(resp'.pwd) = NotFoundHashes

\* C28 as stated: a confirm, check_reset_code or reset_password request
\* that fails for an unknown email, for a user without a pending code, for
\* an expired code or for a code that does not match makes the same number
\* of hash computations in each of the four cases, and so does every
\* failing login.
C28_Original == [][C28_OriginalStep]_vars

\* what get_current_user requires of a token
ValidToken(token) ==
    /\ token.sig = "good"
    /\ token.exp >= now
    /\ token.sub # NoEmail
    /\ UserExists(token.sub)

C24_Step ==
    (resp'.op = "resend_confirmation" /\ now' = now
        /\ resp'.bearer # NoToken) =>
        IF ValidToken(resp'.bearer)
        THEN resp'.detail # CredentialsException.detail
        ELSE /\ resp'.status = CredentialsException.status
             /\ resp'.kind = CredentialsException.kind
             /\ resp'.detail = CredentialsException.detail
             /\ UNCHANGED <<users, mails>>

\* C24: a presented token that is malformed, badly signed, expired, without
\* a subject or with a subject no user has is rejected with the same 401
\* 'Could not validate credentials' whichever check failed, and the
\* request does nothing; only a token that is validly signed, unexpired
\* and names an existing user gets past the token verification.
Thm_C24 == [][C24_Step]_vars

\* an expired token with a good signature and an existing subject was
\* rejected
Wit_C24 ==
    /\ resp.op = "resend_confirmation"
    /\ resp.bearer.sig = "good"
    /\ resp.bearer.exp < now
    /\ resp.bearer.sub \in DOMAIN users
    /\ resp.detail = CredentialsException.detail

\* the plaintext codes handed to mail dispatch
MailedCodes == {m.code : m \in mails}

\* an output of pwd_context.hash
IsHash(h) == h.salt > 0

\* C25: in every reachable state the reset code column of every row is
\* empty or holds a salted hash of a code that was handed to mail dispatch,
\* never the code itself; every code generated and stored went into a
\* mail; and no response body has a field for the code or for its hash.
Thm_C25 ==
    /\ \A e \in DOMAIN users :
          \/ users[e].reset_code_hash = NoneHash
          \/ /\ IsHash(users[e].reset_code_hash)
             /\ users[e].reset_code_hash.secret \in MailedCodes
    /\ MailedCodes = 1..ncodes
    /\ DOMAIN resp.user \cap {"code", "reset_code_hash", "reset_code_expiration"} = {}
    /\ DOMAIN resp.access_token = {"sub", "exp", "sig"}

\* a user has a pending code: its hash is stored and its plaintext is in a
\* mail
Wit_C25 ==
    \E e \in DOMAIN users, m \in mails :
        /\ users[e].reset_code_hash # NoneHash
        /\ m.to = e
        /\ users[e].reset_code_hash = pwd_hash(m.code, users[e].reset_code_hash.salt)
        /\ resp.op = "register"
        /\ resp.status = 200

\* the requests that commit in this step
Committing == DOMAIN inflight \ DOMAIN inflight'

C26_OriginalStep ==
    \A p \in Committing :
        inflight[p].op \in {"confirm", "reset_password"} =>
            <<inflight[p].email, inflight[p].code>> \notin consumed

\* C26 as stated: over every interleaving of requests (SpecConc), a confirm
\* or reset_password request succeeds with a code only if no confirm or
\* reset_password request has succeeded with that code of that user before.
C26_Original == [][C26_OriginalStep]_vars

C27_OriginalStep ==
    \A p \in Committing :
        LET r == inflight[p]
            row == users'[r.email]
        IN  /\ row.reset_code_hash = ValueOf(r.new_data, "reset_code_hash")
            /\ row.reset_code_expiration =
                   ValueOf(r.new_data, "reset_code_expiration")
            /\ r.mail \in mails'
            /\ \A m \in mails' :
                   verify_reset_code(row, m.code, now') => m.code = r.code
            /\ row.reset_code_expiration > now' =>
                   verify_reset_code(row, r.code, now')

\* C27 as stated: when forgot_password requests for one user overlap
\* (SpecForgot), each commit leaves the stored hash and expiration as the
\* committing request computed them, so after both the pair is that of the
\* request that committed last; a mail is out for every request that
\* committed; and of the mailed codes none but the one of the last commit
\* is valid, which is valid until its expiration.
C27_Original == [][C27_OriginalStep]_vars

\* the login gate (confirmed_at) and the gate of authenticated requests
\* (is_active) agree on every user
GatesAgree ==
    \A e \in DOMAIN users :
        users[e].is_active <=> (users[e].confirmed_at # NoneTime)

C30_Step ==
    \A e \in DOMAIN users' :
        IF e \in DOMAIN users
        THEN (\/ users'[e].is_active # users[e].is_active
              \/ users'[e].confirmed_at # users[e].confirmed_at) =>
                 /\ resp'.op = "confirm"
                 /\ resp'.email = e
                 /\ resp'.status = 200
        ELSE /\ ~users'[e].is_active
             /\ users'[e].confirmed_at = NoneTime

\* C30: in every reachable state is_active of a user is true exactly when
\* confirmed_at is set; a new row has neither, and the only request that
\* changes either field of a row is a successful confirm for that user.
Thm_C30 == []GatesAgree /\ [][C30_Step]_vars

\* a user was confirmed: both gates are open
Wit_C30 ==
    /\ resp.op = "confirm"
    /\ resp.status = 200
    /\ resp.email \in DOMAIN users
    /\ users[resp.email].is_active
    /\ users[resp.email].confirmed_at # NoneTime

\* C29 as stated: when update_object raises BadRequest for a key the entity
\* does not have, the entity is as it was before the call, the fields named
\* earlier in the payload included, and nothing was written to the store.
C29_Original ==
    (call.op = "update_object" /\ call.raised = "BadRequest") =>
        /\ call.entity = call.before
        /\ ~call.add
        /\ ~call.commit

\* ------------------------------------------------------------- C31
\* the step answers a login or a reset_password with a bearer token
ReturnsToken == (IsLogin \/ IsReset) /\ resp'.access_token # NoToken

C31_OriginalStep ==
    ReturnsToken =>
        /\ resp'.access_token.sub \in DOMAIN users'
        /\ users'[resp'.access_token.sub].confirmed_at # NoneTime

\* C31 as stated: whenever login or reset_password returns a bearer token,
\* the subject of the token is a user whose confirmed_at is set.
C31_Original == [][C31_OriginalStep]_vars

\* ------------------------------------------------------------- C32
ProtectedOps == {"get_users", "resend_confirmation"}

\* what RequestUser requires of the presented token: get_current_user,
\* then is_active of the user it names
ActiveCaller(token) == ValidToken(token) /\ users[token.sub].is_active

\* the response comes from the body of the endpoint, not from a dependency
BodyRan == resp'.kind \in {Ok.kind, NotFound("").kind}

C32_Step ==
    (resp'.op \in ProtectedOps /\ now' = now) =>
        /\ BodyRan => ActiveCaller(resp'.bearer)
        /\ ~ActiveCaller(resp'.bearer) =>
               UNCHANGED <<users, mails, ncodes, nsalts>>
        /\ (ValidToken(resp'.bearer) /\ ~users[resp'.bearer.sub].is_active) =>
               Outcome(resp') = InactiveUser
        /\ (resp'.op = "get_users" /\ ActiveCaller(resp'.bearer)) =>
               /\ Outcome(resp') = Ok
               /\ resp'.page.total_items = Cardinality(DOMAIN users)
               /\ UNCHANGED <<users, mails>>
        /\ (resp'.op = "resend_confirmation" /\ ActiveCaller(resp'.bearer)) =>
               IF UserExists(resp'.email)
               THEN Outcome(resp') = Ok
               ELSE /\ resp'.status = 404
                    /\ resp'.kind = "NotFound"
                    /\ UNCHANGED <<users, mails, ncodes, nsalts>>

\* C32: list users and resend_confirmation run their body only for a
\* request whose token is validly signed, unexpired and names an existing
\* user with is_active true; every other request changes nothing, a valid
\* token of an inactive user is answered 400 'Inactive user', and a
\* resend_confirmation for an email no user has is answered 404 NotFound
\* and changes nothing.
Thm_C32 == [][C32_Step]_vars

\* an active caller asked for a confirmation mail to an address no user
\* has and got NotFound
Wit_C32 ==
    /\ resp.op = "resend_confirmation"
    /\ ActiveCaller(resp.bearer)
    /\ ~UserExists(resp.email)
    /\ resp.kind = "NotFound"

\* ------------------------------------------------------------- C33
\* the messages the step handed to background_tasks.add_task
Scheduled == mails' \ mails

\* the row of m.to as committed by the step holds the hash of the code of
\* m and the expiration of this request, and the step wrote it
WriteCommitted(m) ==
    /\ m.to \in DOMAIN users'
    /\ IsHash(users'[m.to].reset_code_hash)
    /\ users'[m.to].reset_code_hash.secret = m.code
    /\ users'[m.to].reset_code_expiration = now + RESET_TOKEN_EXPIRE_MINUTES
    /\ m.to \in DOMAIN users => users'[m.to] # users[m.to]

\* register answered 200, or forgot_password found the user
WriteSucceeded ==
    \/ IsRegister /\ resp'.status = 200
    \/ IsForgot /\ UserExists(resp'.email)

C33_Step ==
    (IsRegister \/ IsForgot) =>
        /\ \A m \in Scheduled : m.to = resp'.email /\ WriteCommitted(m)
        /\ WriteSucceeded => Cardinality(Scheduled) = 1
        /\ ~WriteSucceeded => UNCHANGED <<users, mails>>
        /\ (IsRegister /\ UserExists(resp'.email)
                /\ password_requirements(resp'.password)) =>
               /\ Outcome(resp') = IntegrityError
               /\ UNCHANGED <<users, mails>>

\* C33: a register or forgot_password request schedules a mail only with
\* its user write committed (the stored row then holds the hash of the
\* mailed code), schedules exactly one mail when the write succeeded, and
\* schedules none and leaves every user as it was when no write was
\* committed; a register for an email that already has a user fails on the
\* insert, schedules no mail and leaves the existing user unchanged.
Thm_C33 == [][C33_Step]_vars

\* a register for an email that has a user failed on the insert, and the
\* only mails scheduled are those of earlier requests
Wit_C33 ==
    /\ resp.op = "register"
    /\ Outcome(resp) = IntegrityError
    /\ UserExists(resp.email)
    /\ Cardinality(mails) = 1

\* ------------------------------------------------------------- C34
\* the step answers a request (a Tick leaves the clock changed)
IsRequest == resp'.op # "none" /\ now' = now

\* the request ended in an exception or was refused before its handler
Failed == resp'.status # Ok.status

C34_Step ==
    (IsRequest /\ (Failed \/ resp'.op = "login")) => UNCHANGED users

\* C34: every request that ends in a failure, and every login whether it
\* succeeds or fails, leaves every field of every persisted user as it
\* was, last_login_at and last_login_ip included; these two are set by
\* no request at all.
Thm_C34 ==
    /\ [](\A e \in DOMAIN users :
             /\ users[e].last_login_at = NoneTime
             /\ users[e].last_login_ip = NoneStr)
    /\ [][C34_Step]_vars

\* a login succeeded and the row of the user records no login
Wit_C34 ==
    /\ resp.op = "login"
    /\ resp.status = 200
    /\ resp.access_token # NoToken
    /\ users[resp.email].last_login_at = NoneTime
    /\ users[resp.email].last_login_ip = NoneStr

\* ------------------------------------------------------------- C35
\* C35 as stated: every page aio_get_all returns has num_items <=
\* total_items and num_items <= limit, also when other requests create or
\* delete rows between the item query and the count query (SpecPage).
C35_Original ==
    (call.op = "aio_get_all" /\ call.raised = NoneStr) =>
        /\ call.num_items <= call.total_items
        /\ call.num_items <= call.limit

\* ------------------------------------------------------------- C36
SyncOps == {"create", "update", "update_with_diff"}

\* what the asynchronous counterpart of the synchronous call c raises and
\* the table it leaves, run on the table t with the arguments of c
\* (aio_save is called with session and commit as keywords)
AsyncCounterpart(t, c) ==
    IF c.op = "create"
    THEN LET r == create_body(t, c.new_data, 0, {"session", "commit"})
         IN  [raised |-> r.raised,
              table |-> IF r.commit THEN t @@ (r.entity.email :> r.entity)
                        ELSE t]
    ELSE LET r == update_body(t[c.before.email], c.new_data,
                              c.save_if_no_diff, 0, {"session", "commit"})
         IN  [raised |-> r.raised,
              table |-> IF r.commit
                        THEN [t EXCEPT ![c.before.email] = r.entity]
                        ELSE t]

C36_OriginalStep ==
    (call = NoCall /\ call'.op \in SyncOps) =>
        /\ call'.raised = AsyncCounterpart(users, call').raised
        /\ users' = AsyncCounterpart(users, call').table

\* C36 as stated: a synchronous create, update or update_with_diff ends as
\* its asynchronous counterpart would on the same table with the same
\* arguments: the same failure or none, and the same persisted rows.
C36_Original == [][C36_OriginalStep]_vars

====
